---- MODULE Spec2Model ----
(***************************************************************************)
(* A model of the Data-Tada ingestion pipeline:                            *)
(*   data/ckan_to_spider_json.py   catalogue fetcher and normalizer        *)
(*   data/sitemap_filter.py        URL index collector and keyword filter  *)
(*   data/govscrape/spiders/main_body_spider.py   page crawler/extractor   *)
(*   data/run_from_sitemap.py      identifier allocation and merge         *)
(*                                                                         *)
(* Text is modelled as a sequence of one-character strings, so that        *)
(* lower-casing, whitespace collapsing, extension parsing, sorting and     *)
(* joining are computed the way the code computes them.                    *)
(***************************************************************************)
EXTENDS Integers, Sequences, FiniteSets, TLC

(***************************************************************************)
(* Bounds of the model.                                                    *)
(***************************************************************************)
\* most source URLs listed in api_links.txt (catalogue-stage specification)
MaxApiUrls == 2
\* most packages the modelled catalogues hold, all source URLs together
MaxItems == 3
\* largest page size (rows) a modelled source URL asks for
MaxRows == 2
\* largest offset (start) a modelled source URL asks for
MaxStart == 1
\* page fetches the downloader keeps in flight at once
MaxConcurrent == 2
\* largest item / page limit a modelled run is given (0 = no limit)
MaxLimit == 1
\* most packages a run of the conversion tool reads
MaxCliPkgs == 2
\* largest --start-id of the conversion tool
MaxCliStart == 2

\* the leaf entries and the child references of a root index document
MaxLocs == 2
MaxChildren == 2

\* the largest --limit of the URL filter tool
MaxIdxLimit == 1

\* the resources of a package whose year is guessed
MaxResources == 2

\* the resources of a package, and the anchors of a page, whose data types
\* are collected
MaxTypeSources == 2

\* the regions of a page given to the extractor
MaxRegions == 2

\* the parameters of a source URL's query, and the follow-up URLs built
MaxParams == 3
MaxFollowUps == 2

(***************************************************************************)
(* Text helpers.                                                           *)
(***************************************************************************)
\* the characters the model uses, in ascending code-point order
CodeOrder ==
    << " ", ",", "-", ".", "/", "0", "1", "2", "3", "4", "5", "6", "7",
       "8", "9", "A", "B", "C", "D", "E", "F", "G", "H", "I", "J", "K",
       "L", "M", "N", "O", "P", "Q", "R", "S", "T", "U", "V", "W", "X",
       "Y", "Z", "a", "b", "c", "d", "e", "f", "g", "h", "i", "j", "k",
       "l", "m", "n", "o", "p", "q", "r", "s", "t", "u", "v", "w", "x",
       "y", "z" >>

UpperChars ==
    << "A", "B", "C", "D", "E", "F", "G", "H", "I", "J", "K", "L", "M",
       "N", "O", "P", "Q", "R", "S", "T", "U", "V", "W", "X", "Y", "Z" >>

LowerChars ==
    << "a", "b", "c", "d", "e", "f", "g", "h", "i", "j", "k", "l", "m",
       "n", "o", "p", "q", "r", "s", "t", "u", "v", "w", "x", "y", "z" >>

DigitChars == << "0", "1", "2", "3", "4", "5", "6", "7", "8", "9" >>

Range(s) == {s[i] : i \in 1..Len(s)}

AlnumChars == Range(UpperChars) \cup Range(LowerChars) \cup Range(DigitChars)

\* the lower-case form of one character
LowerChar(c) ==
    IF c \in Range(UpperChars)
    THEN LowerChars[CHOOSE i \in 1..Len(UpperChars) : UpperChars[i] = c]
    ELSE c

\* str.lower()
Lower(s) == [i \in 1..Len(s) |-> LowerChar(s[i])]

\* str.isalnum(): non-empty and every character alphanumeric
IsAlnum(s) == Len(s) > 0 /\ \A i \in 1..Len(s) : s[i] \in AlnumChars

\* position of a character in code-point order
CodeOf(c) == CHOOSE i \in 1..Len(CodeOrder) : CodeOrder[i] = c

\* Python's str < str
RECURSIVE StrLess(_, _)
StrLess(a, b) ==
    IF Len(a) = 0 THEN Len(b) > 0
    ELSE IF Len(b) = 0 THEN FALSE
    ELSE IF a[1] = b[1] THEN StrLess(Tail(a), Tail(b))
    ELSE CodeOf(a[1]) < CodeOf(b[1])

\* int() of a digit string
RECURSIVE IntOf(_)
IntOf(d) ==
    IF Len(d) = 0 THEN 0
    ELSE 10 * IntOf(SubSeq(d, 1, Len(d) - 1))
         + (CHOOSE k \in 0..9 : DigitChars[k + 1] = d[Len(d)])

\* str() of a natural number
RECURSIVE StrOf(_)
StrOf(n) ==
    IF n < 10 THEN << DigitChars[n + 1] >>
    ELSE Append(StrOf(n \div 10), DigitChars[(n % 10) + 1])

\* str.split(): the whitespace-separated words of s
RECURSIVE SplitWords(_, _, _)
SplitWords(s, cur, acc) ==
    IF Len(s) = 0 THEN (IF Len(cur) > 0 THEN Append(acc, cur) ELSE acc)
    ELSE IF s[1] = " "
         THEN SplitWords(Tail(s), << >>, IF Len(cur) > 0 THEN Append(acc, cur) ELSE acc)
         ELSE SplitWords(Tail(s), Append(cur, s[1]), acc)

\* sep.join(parts)
RECURSIVE Join(_, _)
Join(sep, parts) ==
    IF Len(parts) = 0 THEN << >>
    ELSE IF Len(parts) = 1 THEN parts[1]
    ELSE parts[1] \o sep \o Join(sep, Tail(parts))

\* clean(): collapse whitespace runs to one space and strip
clean(s) == Join(<< " " >>, SplitWords(s, << >>, << >>))

\* str.strip()
RECURSIVE lstrip(_)
lstrip(s) == IF Len(s) > 0 /\ Head(s) = " " THEN lstrip(Tail(s)) ELSE s

RECURSIVE rstrip(_)
rstrip(s) ==
    IF Len(s) > 0 /\ s[Len(s)] = " " THEN rstrip(SubSeq(s, 1, Len(s) - 1)) ELSE s

strip(s) == rstrip(lstrip(s))

\* the characters \w matches among those of the model
WordChars == AlnumChars \cup {"_"}

\* YEAR_RE = \b(19|20|21)\d{2}\b (the catalogue normalizer and the spider
\* compile the same pattern) matches at position i of s
YearAt(s, i) ==
    /\ i >= 1 /\ i + 3 <= Len(s)
    /\ << s[i], s[i + 1] >> \in {<< "1", "9" >>, << "2", "0" >>, << "2", "1" >>}
    /\ s[i + 2] \in Range(DigitChars) /\ s[i + 3] \in Range(DigitChars)
    /\ (i = 1 \/ s[i - 1] \notin WordChars)
    /\ (i + 3 = Len(s) \/ s[i + 4] \notin WordChars)

\* YEAR_RE.search(s): group(0) of the leftmost match, << >> when there is none
YearSearch(s) ==
    LET at == {i \in 1..Len(s) : YearAt(s, i)}
    IN  IF at = {} THEN << >>
        ELSE LET i == CHOOSE k \in at : \A l \in at : k <= l
             IN  SubSeq(s, i, i + 3)

\* sorted(set of strings)
RECURSIVE Sorted(_)
Sorted(S) ==
    IF S = {} THEN << >>
    ELSE LET m == CHOOSE x \in S : \A y \in S \ {x} : StrLess(x, y)
         IN  << m >> \o Sorted(S \ {m})

\* path.rsplit(".", 1)[-1]: the text after the last "."
RECURSIVE AfterLastDot(_)
AfterLastDot(p) ==
    LET t == Tail(p)
    IN  IF "." \in Range(t) THEN AfterLastDot(t)
        ELSE IF p[1] = "." THEN t ELSE AfterLastDot(t)

(***************************************************************************)
(* Catalogue-side normalizer (ckan_to_spider_json.py).                     *)
(***************************************************************************)
\* ext_from_url(): << >> stands for None
ext_from_url(path) ==
    LET p == Lower(path)
    IN  IF "." \in Range(p)
        THEN LET ext == AfterLastDot(p)
             IN  IF Len(ext) >= 1 /\ Len(ext) <= 5 /\ IsAlnum(ext) THEN ext ELSE << >>
        ELSE << >>

\* a normalizer without the alias table
AliasOfNone(t) == t

\* the alias table of collect_data_types
AliasOf(t) == IF t = << "h", "t", "m" >> THEN << "h", "t", "m", "l" >> ELSE t

\* the set of tokens one resource contributes
ResourceTypes(r) ==
    LET fmt == Lower(clean(r.format))
        ext == IF Len(r.url) > 0 THEN ext_from_url(r.url) ELSE << >>
    IN  (IF Len(fmt) > 0 THEN {fmt} ELSE {}) \cup (IF Len(ext) > 0 THEN {ext} ELSE {})

\* collect_data_types(): ", ".join(sorted(alias-normalized token set))
collect_data_types(resources) ==
    LET types == UNION {ResourceTypes(resources[i]) : i \in 1..Len(resources)}
        out   == {AliasOf(Lower(t)) : t \in types}
    IN  Join(<< ",", " " >>, Sorted(out))

\* the records of a catalogue response's results list the model uses: a
\* package is a JSON object (isdict) with a name, an id, the address it was
\* harvested from and a resources list; an element that is no JSON object
\* (isdict = FALSE) makes pkg.get raise
ResCsv == [format |-> << " ", "C", "S", "V" >>, url |-> << >>]
ResHtm  == [format |-> << >>, url |-> << "/", "f", ".", "H", "T", "M" >>]
ResPlain == [format |-> << >>, url |-> << "/", "d", ".", "x", "/", "f" >>]

\* the packages the catalogue behind source URL u serves: with an .htm and
\* a CSV resource, with no recognisable resource, or no JSON object at all;
\* the first catalogue holds packages of its own, a later one packages
\* harvested from elsewhere, which carry original_harvest_source.href
PkgKinds(u) == IF u = 1 THEN {"htm", "none", "bad"} ELSE {"harv", "none", "bad"}

\* the packages an input of the conversion tool may hold: of all these
\* kinds together, without a name but with an id, and with neither
CliPkgKinds == {"htm", "none", "bad", "harv", "byid", "anon"}

ResourcesOf(kind) ==
    CASE kind = "csv"  -> << ResCsv >>
      [] kind = "htm"  -> << ResHtm, ResCsv >>
      [] kind = "none" -> << ResPlain >>
      [] kind \in {"harv", "byid", "anon"} -> << ResCsv >>
      [] OTHER         -> << >>

\* the name of the package the catalogue behind source URL u holds at
\* offset k
PkgName(u, k) == StrOf(u) \o << "-" >> \o StrOf(k)

\* the package the catalogue behind source URL u serves at offset k; an
\* absent or empty name, id or original_harvest_source.href is << >>
Pkg(u, k, kind) ==
    [isdict |-> kind # "bad",
     name |-> IF kind \in {"byid", "anon"} THEN << >> ELSE PkgName(u, k),
     id |-> IF kind = "anon" THEN << >> ELSE << "i" >> \o PkgName(u, k),
     harvest_href |-> IF kind = "harv"
                      THEN << " ", "h", "/" >> \o PkgName(u, k) \o << " " >>
                      ELSE << >>,
     resources |-> ResourcesOf(kind)]

\* guess_source_url(): the cleaned original_harvest_source.href when there
\* is one, else the canonical dataset path joined with the name, or with
\* the id when there is no name, else ""
guess_source_url(pkg) ==
    IF Len(pkg.harvest_href) > 0
    THEN [base |-> "", ref |-> clean(pkg.harvest_href)]
    ELSE LET name == IF Len(pkg.name) > 0 THEN pkg.name ELSE pkg.id
         IN  IF Len(name) > 0
             THEN [base |-> "https://data.gov.au/data/dataset/", ref |-> name]
             ELSE [base |-> "", ref |-> << >>]

\* a transform_package that never drops
transform_package_keeping(pkg, drop_if_empty_types, row_id) ==
    IF ~pkg.isdict THEN [kind |-> "raise"]
    ELSE [kind |-> "row",
          row  |-> [id |-> row_id,
                    source_url |-> guess_source_url(pkg),
                    data_types |-> collect_data_types(pkg.resources)]]

\* transform_package(): "raise" when pkg is no JSON object, "none" when the
\* record is dropped, else the record (the fields the properties read)
transform_package(pkg, drop_if_empty_types, row_id) ==
    IF ~pkg.isdict THEN [kind |-> "raise"]
    ELSE LET data_types == collect_data_types(pkg.resources)
         IN  IF drop_if_empty_types /\ Len(data_types) = 0
             THEN [kind |-> "none"]
             ELSE [kind |-> "row",
                   row  |-> [id |-> row_id,
                             source_url |-> guess_source_url(pkg),
                             data_types |-> data_types]]

\* a loop that advances the counter for a dropped package too
RECURSIVE TransformLoopCountsDropped(_, _, _, _)
TransformLoopCountsDropped(pkgs, rows, id, drop) ==
    IF Len(pkgs) = 0 THEN [out |-> rows, current_id |-> id, raised |-> FALSE]
    ELSE LET r == transform_package(Head(pkgs), drop, id)
         IN  IF r.kind = "raise"
             THEN [out |-> rows, current_id |-> id, raised |-> TRUE]
             ELSE IF r.kind = "none"
             THEN TransformLoopCountsDropped(Tail(pkgs), rows, id + 1, drop)
             ELSE TransformLoopCountsDropped(Tail(pkgs), Append(rows, r.row), id + 1, drop)

\* a loop that puts each new row in front of the rows it has
RECURSIVE TransformLoopPrepending(_, _, _, _)
TransformLoopPrepending(pkgs, rows, id, drop) ==
    IF Len(pkgs) = 0 THEN [out |-> rows, current_id |-> id, raised |-> FALSE]
    ELSE LET r == transform_package(Head(pkgs), drop, id)
         IN  IF r.kind = "raise"
             THEN [out |-> rows, current_id |-> id, raised |-> TRUE]
             ELSE IF r.kind = "none"
             THEN TransformLoopPrepending(Tail(pkgs), rows, id, drop)
             ELSE TransformLoopPrepending(Tail(pkgs), << r.row >> \o rows, id + 1, drop)

\* the loop "for pkg in pkgs" of _ckan_collect_all and of main: the rows and
\* the counter when the loop ends, and whether it ended by an exception
RECURSIVE TransformLoop(_, _, _, _)
TransformLoop(pkgs, rows, id, drop) ==
    IF Len(pkgs) = 0 THEN [out |-> rows, current_id |-> id, raised |-> FALSE]
    ELSE LET r == transform_package(Head(pkgs), drop, id)
         IN  IF r.kind = "raise"
             THEN [out |-> rows, current_id |-> id, raised |-> TRUE]
             ELSE IF r.kind = "none"
             THEN TransformLoop(Tail(pkgs), rows, id, drop)
             ELSE TransformLoop(Tail(pkgs), Append(rows, r.row), id + 1, drop)

(***************************************************************************)
(* URL index collector and keyword filter (sitemap_filter.py).             *)
(***************************************************************************)
DEFAULT_KEYWORDS ==
    << << "a", "p", "i" >>,
       << "a", "p", "i", "s" >>,
       << "g", "r", "a", "p", "h", "q", "l" >>,
       << "r", "e", "s", "t" >>,
       << "o", "d", "a", "t", "a" >>,
       << "d", "a", "t", "a" >>,
       << "d", "a", "t", "a", "s", "e", "t" >>,
       << "d", "a", "t", "a", "s", "e", "t", "s" >>,
       << "r", "e", "s", "o", "u", "r", "c", "e", "s" >>,
       << "r", "e", "c", "o", "r", "d", "s" >>,
       << "e", "n", "t", "r", "i", "e", "s" >>,
       << "f", "e", "e", "d" >>,
       << "s", "t", "r", "e", "a", "m" >>,
       << "d", "a", "t", "a", "s", "t", "o", "r", "e" >>,
       << "s", "t", "a", "t", "s" >>,
       << "s", "t", "a", "t", "i", "s", "t", "i", "c", "s" >>,
       << "r", "e", "p", "o", "r", "t" >>,
       << "r", "e", "p", "o", "r", "t", "s" >>,
       << "a", "n", "a", "l", "y", "t", "i", "c", "s" >>,
       << "m", "e", "t", "r", "i", "c", "s" >>,
       << "o", "p", "e", "n", "d", "a", "t", "a" >>,
       << "c", "a", "t", "a", "l", "o", "g" >>,
       << "d", "o", "w", "n", "l", "o", "a", "d", "s" >>,
       << "c", "k", "a", "n" >>,
       << "j", "s", "o", "n" >>,
       << "x", "m", "l" >>,
       << "c", "s", "v" >>,
       << "r", "d", "f" >>,
       << "g", "e", "o", "j", "s", "o", "n" >>,
       << "x", "l", "s", "x" >> >>

\* a URL as urlsplit sees it
Url(host, path, query) == [host |-> host, path |-> path, query |-> query]

\* "needle in hay" for str
Contains(hay, needle) ==
    \E i \in 0..(Len(hay) - Len(needle)) :
        \A j \in 1..Len(needle) : hay[i + j] = needle[j]

\* an index document as fetched and parsed: ok = FALSE when fetch_bytes or
\* parse_xml_bytes raises; urls are the texts of its sm:url/sm:loc entries,
\* sitemaps the names of the documents its sm:sitemap/sm:loc entries refer to
Doc(ok, urls, sitemaps) == [ok |-> ok, urls |-> urls, sitemaps |-> sitemaps]

\* a collector that follows a child index into its own first child
collect_urls_from_urlset_deep(web, name) ==
    IF ~web[name].ok THEN [raised |-> TRUE, urls |-> << >>]
    ELSE [raised |-> FALSE,
          urls |-> IF Len(web[name].urls) = 0 /\ Len(web[name].sitemaps) > 0
                   THEN web[Head(web[name].sitemaps)].urls
                   ELSE web[name].urls]

\* collect_urls_from_urlset()
collect_urls_from_urlset(web, name) ==
    IF ~web[name].ok THEN [raised |-> TRUE, urls |-> << >>]
    ELSE [raised |-> FALSE, urls |-> web[name].urls]

\* a loop over the child indexes that ends at the first child it cannot read
RECURSIVE CollectChildrenStopping(_, _, _)
CollectChildrenStopping(web, children, urls) ==
    IF Len(children) = 0 THEN urls
    ELSE LET c == collect_urls_from_urlset(web, Head(children))
         IN  IF c.raised THEN urls
             ELSE CollectChildrenStopping(web, Tail(children), urls \o c.urls)

\* the loop over the child indexes, each in its own try/except: pass
RECURSIVE CollectChildren(_, _, _)
CollectChildren(web, children, urls) ==
    IF Len(children) = 0 THEN urls
    ELSE LET c == collect_urls_from_urlset(web, Head(children))
         IN  CollectChildren(web, Tail(children),
                             IF c.raised THEN urls ELSE urls \o c.urls)

\* collect_urls_from_sitemap()
collect_urls_from_sitemap(web, name) ==
    IF ~web[name].ok THEN [raised |-> TRUE, urls |-> << >>]
    ELSE LET urls == web[name].urls
         IN  [raised |-> FALSE,
              urls |-> IF Len(urls) = 0
                       THEN CollectChildren(web, web[name].sitemaps, << >>)
                       ELSE urls]

\* a collector that keeps repeated URLs
dedupe_keep_all(items) == items

\* dedupe_preserve_order()
RECURSIVE DedupeLoop(_, _, _)
DedupeLoop(items, seen, acc) ==
    IF Len(items) = 0 THEN acc
    ELSE IF Head(items) \in seen
         THEN DedupeLoop(Tail(items), seen, acc)
         ELSE DedupeLoop(Tail(items), seen \cup {Head(items)}, Append(acc, Head(items)))

dedupe_preserve_order(items) == DedupeLoop(items, {}, << >>)

\* a filter that looks for the keywords in the query as well
KeywordHitAnywhere(u, keywords) ==
    \E i \in 1..Len(keywords) :
        Contains(Lower(u.path \o << "?" >> \o u.query), Lower(keywords[i]))

\* the test of filter_by_keywords for one URL
KeywordHit(u, keywords) ==
    \E i \in 1..Len(keywords) : Contains(Lower(u.path), Lower(keywords[i]))

\* filter_by_keywords()
filter_by_keywords(urls, keywords) ==
    SelectSeq(urls, LAMBDA u : KeywordHit(u, keywords))

\* the URLs and index documents of the modelled site
UrlApi    == Url("gov", << "/", "o", "p", "e", "n", "-", "d", "a", "t", "a", "/", "a", "p", "i", "/", "r", "e", "c", "o", "r", "d", "s" >>, << >>)
UrlCsv    == Url("gov", << "/", "D", "a", "t", "a", "s", "e", "t", "s", "/", "x", ".", "C", "S", "V" >>, << >>)
UrlReport == Url("gov", << "/", "r", "e", "p", "o", "r", "t", "s" >>, << >>)
UrlAbout  == Url("data.gov", << "/", "a", "b", "o", "u", "t", "-", "u", "s" >>, << "d", "a", "t", "a" >>)

Web == [name \in {"flat", "index", "nomatch", "one", "down", "c1", "c2", "cbad",
                  "cnested"} |->
          CASE name = "flat"    -> Doc(TRUE, << UrlApi, UrlAbout, UrlCsv, UrlApi >>, << >>)
            [] name = "index"   -> Doc(TRUE, << >>, << "c1", "cbad", "cnested", "c2" >>)
            [] name = "nomatch" -> Doc(TRUE, << UrlAbout >>, << >>)
            [] name = "one"     -> Doc(TRUE, << UrlReport >>, << >>)
            [] name = "c1"      -> Doc(TRUE, << UrlApi, UrlReport >>, << >>)
            [] name = "c2"      -> Doc(TRUE, << UrlReport, UrlCsv >>, << >>)
            [] name = "cnested" -> Doc(TRUE, << >>, << "c1" >>)
            [] OTHER            -> Doc(FALSE, << >>, << >>)]

\* the root index a run may be given, and its keywords argument (<< >> is None)
RootNames == {"flat", "index", "nomatch", "one", "down"}
KeywordArgs == {<< >>, << << "A", "B", "O", "U", "T" >> >>}

(***************************************************************************)
(* Page-side normalizer (main_body_spider.py).                             *)
(***************************************************************************)
\* re.sub(r"[^a-z0-9]+$", "", ext)
RECURSIVE StripTrailingNonAlnum(_)
StripTrailingNonAlnum(e) ==
    IF Len(e) = 0 THEN e
    ELSE IF e[Len(e)] \in Range(LowerChars) \cup Range(DigitChars) THEN e
    ELSE StripTrailingNonAlnum(SubSeq(e, 1, Len(e) - 1))

\* _ext_from_href(): << >> stands for None
ext_from_href(path) ==
    LET p == Lower(path)
    IN  IF "." \in Range(p)
        THEN LET ext == StripTrailingNonAlnum(AfterLastDot(p))
             IN  IF Len(ext) >= 1 /\ Len(ext) <= 5 /\ IsAlnum(ext) THEN ext ELSE << >>
        ELSE << >>

\* the longest run of [a-z0-9] at the head of s
RECURSIVE AlnumRun(_)
AlnumRun(s) ==
    IF Len(s) > 0 /\ s[1] \in Range(LowerChars) \cup Range(DigitChars)
    THEN << s[1] >> \o AlnumRun(Tail(s))
    ELSE << >>

TypePrefix == << "t", "y", "p", "e", "-" >>

\* the groups of re.finditer(r"type-([a-z0-9]+)", s)
RECURSIVE TypeMatches(_)
TypeMatches(s) ==
    IF Len(s) <= Len(TypePrefix) THEN {}
    ELSE LET run == AlnumRun(SubSeq(s, Len(TypePrefix) + 1, Len(s)))
         IN  IF SubSeq(s, 1, Len(TypePrefix)) = TypePrefix /\ Len(run) > 0
             THEN {run} \cup TypeMatches(SubSeq(s, Len(TypePrefix) + Len(run) + 1, Len(s)))
             ELSE TypeMatches(Tail(s))

\* an anchor of the scoped container: its class attribute and the path of its
\* href resolved against the page URL (<< >> when it has no href)
Anchor(class, href) == [class |-> class, href |-> href]

\* the a.file selector: "file" is one of the anchor's classes
IsFileAnchor(a) ==
    \E i \in 1..Len(SplitWords(a.class, << >>, << >>)) :
        SplitWords(a.class, << >>, << >>)[i] = << "f", "i", "l", "e" >>

\* what one anchor adds to exts
AnchorExts(a) ==
    LET ext == IF Len(a.href) > 0 THEN ext_from_href(a.href) ELSE << >>
    IN  (IF IsFileAnchor(a) THEN TypeMatches(Lower(clean(a.class))) ELSE {})
        \cup (IF Len(ext) > 0 THEN {ext} ELSE {})

\* the alias table of _collect_data_types_from_links
NormExt(e) == IF e = << "h", "t", "m" >> THEN << "h", "t", "m", "l" >> ELSE e

\* _collect_data_types_from_links()
collect_data_types_from_links(anchors) ==
    {NormExt(Lower(e)) : e \in UNION {AnchorExts(anchors[i]) : i \in 1..Len(anchors)}}

\* a region of a page: an element by its tag, id, role and classes and
\* whether it lies inside a section.section; regions do not nest
Region(tag, id, role, classes, in_section) ==
    [tag |-> tag, id |-> id, role |-> role, classes |-> classes,
     in_section |-> in_section]

\* the CSS selectors of _sel, in its order
NumSelectors == 9

Matches(k, r) ==
    CASE k = 1 -> r.tag = "main" /\ r.id = "main-content"
      [] k = 2 -> r.id = "main-content"
      [] k = 3 -> r.tag = "main" /\ r.role = "main"
      [] k = 4 -> r.tag = "article" /\ "node" \in r.classes
      [] k = 5 -> r.tag = "article" /\ r.role = "article"
      [] k = 6 -> r.tag = "article"
      [] k = 7 -> r.tag = "div" /\ r.role = "main"
      [] k = 8 -> r.in_section /\ "region-content" \in r.classes
      [] OTHER -> {"region", "region-content"} \subseteq r.classes

\* sel.css(css): the positions of the regions a selector matches
NodesOf(k, regions) == {i \in 1..Len(regions) : Matches(k, regions[i])}

\* an extractor that always takes the whole document
sel_whole_document(regions) == 1..Len(regions)

\* _sel(): the nodes of the first selector that matches any, else the page
RECURSIVE SelFrom(_, _)
SelFrom(k, regions) ==
    IF k > NumSelectors THEN 1..Len(regions)
    ELSE IF NodesOf(k, regions) # {} THEN NodesOf(k, regions)
    ELSE SelFrom(k + 1, regions)

sel(regions) == SelFrom(1, regions)

\* the regions at the given positions, in document order
RECURSIVE RegionsAt(_, _, _)
RegionsAt(regions, at, i) ==
    IF i > Len(regions) THEN << >>
    ELSE (IF i \in at THEN << regions[i] >> ELSE << >>) \o RegionsAt(regions, at, i + 1)

\* container.css("h1::text").get(): the first h1 text, << >> for None
FirstH1(container) ==
    LET with == SelectSeq(container, LAMBDA r : Len(r.h1) > 0)
    IN  IF Len(with) = 0 THEN << >> ELSE with[1].h1

\* _extract_title(): the container's first h1, else the document's title
extract_title(container, doc_title) ==
    strip(IF Len(FirstH1(container)) > 0 THEN FirstH1(container) ELSE doc_title)

\* a region with what it holds: the text of its h1 (<< >> when it has
\* none), its anchors, its blocks (elements with a tag, classes and a text
\* free of markup), its dl.details lists (the texts of their dt and of their
\* dd elements), the texts of the anchors of its .field--name-field-tags and
\* its time elements (a datetime attribute and a text, << >> when missing)
RegionOf(sh, c) ==
    [tag |-> sh.tag, id |-> sh.id, role |-> sh.role, classes |-> sh.classes,
     in_section |-> sh.in_section, h1 |-> c.h1, anchors |-> c.anchors,
     blocks |-> c.blocks, details |-> c.details, tags |-> c.tags,
     times |-> c.times]

\* container.css(...) over the nodes of the container, in document order:
\* the elements of one kind the nodes hold
RECURSIVE Css(_, _)
Css(container, kind) ==
    IF Len(container) = 0 THEN << >>
    ELSE Head(container)[kind] \o Css(Tail(container), kind)

\* _clean_text(): tags and entities removed, whitespace collapsed; the
\* texts of the modelled pages hold no markup and no entities
clean_text(html_text) == IF Len(html_text) = 0 THEN << >> ELSE clean(html_text)

\* dict(zip(dts, dds)).get(key) on the cleaned texts of one dl.details: the
\* dd paired with the last dt equal to key, << >> for None
MappingGet(dl, key) ==
    LET n == IF Len(dl.dts) < Len(dl.dds) THEN Len(dl.dts) ELSE Len(dl.dds)
        at == {i \in 1..n : clean_text(dl.dts[i]) = key}
    IN  IF at = {} THEN << >>
        ELSE clean_text(dl.dds[CHOOSE i \in at : \A j \in at : j <= i])

\* _extract_description(): the first intro element of the container
extract_description(container) ==
    LET intro == SelectSeq(Css(container, "blocks"),
                           LAMBDA b : b.classes \cap {"field--name-field-intro", "node-intro"} # {})
    IN  IF Len(intro) > 0 THEN clean_text(intro[1].text) ELSE << >>

\* " ".join(container.css(cls + " ::text").getall()), cleaned
JoinedText(container, cls) ==
    LET hits == SelectSeq(Css(container, "blocks"), LAMBDA b : cls \in b.classes)
    IN  clean_text(Join(<< " " >>, [i \in 1..Len(hits) |-> hits[i].text]))

\* _extract_owner(): Creator or Publisher of the first dl.details that gives
\* one, else the publisher blocks
extract_owner(container) ==
    LET OwnerIn(dl) == IF Len(MappingGet(dl, << "C", "r", "e", "a", "t", "o", "r" >>)) > 0
                       THEN MappingGet(dl, << "C", "r", "e", "a", "t", "o", "r" >>)
                       ELSE MappingGet(dl, << "P", "u", "b", "l", "i", "s", "h", "e", "r" >>)
        found == SelectSeq(Css(container, "details"), LAMBDA dl : Len(OwnerIn(dl)) > 0)
    IN  IF Len(found) > 0 THEN OwnerIn(found[1])
        ELSE JoinedText(container, "field--name-field-publication-publisher")

\* _extract_topic(): the non-blank tag texts, stripped, the later ones that
\* repeat an earlier one in another case dropped, joined with ", "
extract_topic(container) ==
    LET raw == Css(container, "tags")
        tags == SelectSeq([i \in 1..Len(raw) |-> strip(raw[i])], LAMBDA t : Len(t) > 0)
        kept == SelectSeq([i \in 1..Len(tags) |-> i],
                         LAMBDA i : \A j \in 1..(i - 1) : Lower(tags[j]) # Lower(tags[i]))
    IN  Join(<< ",", " " >>, [i \in 1..Len(kept) |-> tags[kept[i]]])

\* _extract_year(): the year of the title; else of the first dated value of
\* the dl.details lists, list by list and key by key; else of the first time
\* attribute or text that holds one; << >> for ""
extract_year(title, container) ==
    LET keys == << << "C", "r", "e", "a", "t", "i", "o", "n", " ", "D", "a", "t", "e" >>, << "P", "u", "b", "l", "i", "s", "h", "e", "d" >>, << "P", "u", "b", "l", "i", "c", "a", "t", "i", "o", "n", " ", "d", "a", "t", "e" >>, << "D", "a", "t", "e" >> >>
        dls == Css(container, "details")
        vals == [n \in 1..(Len(dls) * Len(keys)) |->
                    MappingGet(dls[((n - 1) \div Len(keys)) + 1],
                               keys[((n - 1) % Len(keys)) + 1])]
        dated == SelectSeq(vals, LAMBDA v : Len(YearSearch(v)) > 0)
        times == Css(container, "times")
        stamps == [n \in 1..(2 * Len(times)) |->
                      IF n % 2 = 1 THEN times[(n + 1) \div 2].datetime
                      ELSE times[n \div 2].text]
        timed == SelectSeq(stamps, LAMBDA v : Len(YearSearch(v)) > 0)
    IN  IF Len(YearSearch(title)) > 0 THEN YearSearch(title)
        ELSE IF Len(dated) > 0 THEN YearSearch(dated[1])
        ELSE IF Len(timed) > 0 THEN YearSearch(timed[1])
        ELSE << >>

\* _extract_license()
extract_license(container) == JoinedText(container, "field--name-field-license")

\* _extract_coverage(): Coverage of the first dl.details that gives one,
\* else the coverage blocks
extract_coverage(container) ==
    LET found == SelectSeq(Css(container, "details"),
                           LAMBDA dl : Len(MappingGet(dl, << "C", "o", "v", "e", "r", "a", "g", "e" >>)) > 0)
    IN  IF Len(found) > 0 THEN MappingGet(found[1], << "C", "o", "v", "e", "r", "a", "g", "e" >>)
        ELSE JoinedText(container, "field--name-field-publication-coverage")

\* text[:280]
PreviewLen == 280

\* _extract_sample_preview(): the first intro, summary or description
\* element, else the first paragraph, cut to PreviewLen characters
extract_sample_preview(container) ==
    LET blocks == Css(container, "blocks")
        intro == SelectSeq(blocks,
                           LAMBDA b : b.classes \cap {"field--name-field-intro", "node-intro",
                                                       "summary", "description"} # {})
        paras == SelectSeq(blocks, LAMBDA b : b.tag = "p")
        text == IF Len(intro) > 0 THEN clean_text(intro[1].text) ELSE << >>
        full == IF Len(text) > 0 THEN text
                ELSE IF Len(paras) > 0 THEN clean_text(paras[1].text)
                ELSE << >>
    IN  IF Len(full) > PreviewLen THEN SubSeq(full, 1, PreviewLen) ELSE full

\* a fetched page: text = FALSE for a response with no selector (a binary
\* or otherwise non-text body, for which response.selector raises), else
\* the text of the document's title element and the regions of the body
NoContent ==
    [h1 |-> << >>, anchors |-> << >>, blocks |-> << >>, details |-> << >>,
     tags |-> << >>, times |-> << >>]

PageOf(kind) ==
    CASE kind = "files" ->
           [text |-> TRUE, doc_title |-> << " ", "S", "i", "t", "e", " " >>,
            regions |->
              << RegionOf(Region("div", "", "", {}, FALSE),
                          [NoContent EXCEPT
                             !.anchors = << Anchor(<< >>, << "/", "s", ".", "z", "i", "p" >>) >>,
                             !.blocks = << [tag |-> "p", classes |-> {}, text |-> << "M", "e", "n", "u" >>] >>]),
                 RegionOf(Region("main", "main-content", "", {}, FALSE),
                          [h1 |-> << " ", "D", "a", "t", "a", " " >>,
                           anchors |-> << Anchor(<< "b", "t", "n", " ", "f", "i", "l", "e", " ", "T", "y", "p", "e", "-", "X", "L", "S", "X" >>, << "/", "f", "/", "a", ".", "H", "T", "M" >>),
                                          Anchor(<< >>, << "/", "a", "b", "o", "u", "t", "/" >>) >>,
                           blocks |-> << [tag |-> "div", classes |-> {"node-intro"}, text |-> << "A", "i", "r", " ", " ", "d", "a", "t", "a" >>],
                                         [tag |-> "div", classes |-> {"field--name-field-license"}, text |-> << "C", "C" >>] >>,
                           details |-> << [dts |-> << << "C", "r", "e", "a", "t", "o", "r" >>, << "D", "a", "t", "e" >>, << "C", "o", "v", "e", "r", "a", "g", "e" >> >>,
                                           dds |-> << << "A", "B", "S" >>, << "M", "a", "y", " ", "2", "0", "2", "1" >>, << "N", "S", "W" >> >>] >>,
                           tags |-> << << "A", "i", "r" >>, << "a", "i", "r" >> >>,
                           times |-> << >>]) >>]
      [] kind = "nofiles" ->
           [text |-> TRUE, doc_title |-> << " ", "S", "i", "t", "e", " " >>,
            regions |->
              << RegionOf(Region("div", "", "", {}, FALSE),
                          [NoContent EXCEPT
                             !.h1 = << " ", "D", "a", "t", "a", " " >>,
                             !.anchors = << Anchor(<< "t", "y", "p", "e", "-", "p", "d", "f" >>, << "/", "v", "1", ".", "2", "/", "a", "b", "o", "u", "t" >>) >>]) >>]
      [] OTHER -> [text |-> FALSE, doc_title |-> << >>, regions |-> << >>]

PageKinds == {"files", "nofiles", "nontext"}

\* MainBodySpider.parse lines 262-291: "raise", or the item built from the
\* scoped container
ParseItem(u, page, counter) ==
    IF ~page.text THEN [kind |-> "raise"]
    ELSE LET container == RegionsAt(page.regions, sel(page.regions), 1)
             title == extract_title(container, page.doc_title)
             data_types_set == collect_data_types_from_links(Css(container, "anchors"))
         IN  [kind |-> "item",
              item |-> [id |-> counter,
                        title |-> title,
                        description |-> extract_description(container),
                        owner |-> extract_owner(container),
                        topic |-> extract_topic(container),
                        year |-> extract_year(title, container),
                        license |-> extract_license(container),
                        coverage |-> extract_coverage(container),
                        sample_preview |-> extract_sample_preview(container),
                        source_url |-> [base |-> "page", ref |-> u],
                        data_types |-> IF data_types_set # {}
                                       THEN Join(<< ",", " " >>, Sorted(data_types_set))
                                       ELSE << >>]]

\* DropEmptyDataTypesPipeline.process_item: TRUE when the item is dropped
DropsItem(item) == Len(clean(item.data_types)) = 0

(***************************************************************************)
(* Catalogue responses and their validation.                               *)
(***************************************************************************)
\* "count" absent from the result object (Python's None)
NoCount == 0 - 1

\* the shapes of a decoded response body: "ok" has success = true, "nosuccess"
\* has no success key, "failure" has success = false, "noresult" lacks the
\* result object, "noresults" lacks result.results, "notdict" is no JSON object;
\* in "nullresult" the result is null or a number, which "in" cannot search
RespShapes == {"ok", "nosuccess", "failure", "noresult", "nullresult", "noresults",
               "notdict"}

Response(shape, results, count) ==
    [isdict      |-> shape # "notdict",
     has_result  |-> shape \notin {"notdict", "noresult"},
     result_container |-> shape # "nullresult",
     has_results |-> shape \notin {"notdict", "noresult", "nullresult", "noresults"},
     has_success |-> shape \in {"ok", "failure"},
     success     |-> shape = "ok",
     results     |-> results,
     count       |-> count]

\* what a raising call returns: the exception, named by its message
Raised(e) == [raised |-> TRUE, error |-> e, results |-> << >>, count |-> NoCount]

\* a validator without the test of the success indicator
ckan_results_from_page_unchecked(data) ==
    IF ~data.isdict \/ ~data.has_result
    THEN Raised("not_a_response")
    ELSE IF ~data.result_container
    THEN Raised("type_error")
    ELSE IF ~data.has_results
    THEN Raised("not_a_response")
    ELSE [raised |-> FALSE, error |-> "", results |-> data.results,
          count |-> data.count]

\* ckan_results_from_page(): raises ValueError, or TypeError when "results"
\* is looked for in a result that is no container, or returns (results, count)
ckan_results_from_page(data) ==
    IF ~data.isdict \/ ~data.has_result
    THEN Raised("not_a_response")
    ELSE IF ~data.result_container
    THEN Raised("type_error")
    ELSE IF ~data.has_results
    THEN Raised("not_a_response")
    ELSE IF ~(IF data.has_success THEN data.success ELSE TRUE)
    THEN Raised("success_false")
    ELSE [raised |-> FALSE, error |-> "", results |-> data.results,
          count |-> data.count]

\* rows when the URL carries no rows parameter (params.get("rows", ["100"]))
DefaultRows == 100
\* "the parameter is absent from the URL"
Absent == 0 - 1

Min(a, b) == IF a < b THEN a ELSE b

(***************************************************************************)
(* State.                                                                  *)
(***************************************************************************)
VARIABLES
    scope,       \* which input sets the environment draws from (never changes)
    pc,          \* where run_pipeline is: "start", "ckan", "sitemap", "crawl",
                 \* "merge", "done", "crashed"
    api,         \* api_links.txt: [exists, n] (n source URLs)
    url,         \* _ckan_collect_all: index of the source URL being processed
    fpc,         \* within one source URL: "idle", "first" (first response
                 \* pending), "paging" (in the while loop), "paged" (follow-up
                 \* response pending), "transform"
    rows,        \* fetch_all_pages: rows
    start,       \* fetch_all_pages: start
    total,       \* fetch_all_pages: total
    got,         \* fetch_all_pages: got
    results,     \* fetch_all_pages: results / _ckan_collect_all: pkgs
    out,         \* _ckan_collect_all: out
    current_id,  \* _ckan_collect_all: current_id
    ckan_rows,   \* run_pipeline: ckan_rows
    next_id,     \* run_pipeline: next_id
    resp,        \* environment: the answer to the request just sent (<< >>: none)
    srvN,        \* environment: packages the catalogue behind this URL holds
    srvRows,     \* environment: the page size that catalogue serves
    budget,      \* environment: packages left for the catalogues not yet met
    reqs,        \* history: the offsets requested for this source URL, in order
    status,      \* the log: per finished source URL "ok", "skipped", or the
                 \* exception it failed with
    filtered,    \* run_pipeline: filtered (the spider's start_urls)
    limits,      \* run_pipeline: item_limit, page_limit (0 = none)
    nextReq,     \* crawler: index of the next start URL to request
    inflight,    \* crawler: indexes of the start URLs being downloaded
    ready,       \* crawler: downloaded responses awaiting their callback
    running,     \* crawler: the item parse has yielded, in the item pipeline
    id_counter,  \* MainBodySpider._id_counter
    feed,        \* crawler: the items exported to the temporary feed
    item_count,  \* crawler: items scraped, as CLOSESPIDER_ITEMCOUNT counts
    page_count,  \* crawler: responses received, as CLOSESPIDER_PAGECOUNT counts
    closing,     \* crawler: a limit was reached, the spider is closing
    output,      \* the content of the output file
    writes,      \* history: number of writes to the output file
    cli,         \* a run of ckan_to_spider_json.main: its arguments, locals,
                 \* position and output file
    idx,         \* a run of sitemap_filter.main: its arguments, locals,
                 \* position and output
    yr,          \* a call of guess_year: its arguments and result
    dt,          \* a call of a data_types normalizer: its input and result
    pg,          \* a call of the page extractor: the page and the item
    uq           \* the follow-up URLs fetch_all_pages builds from a URL

ckanVars == << url, fpc, rows, start, total, got, results, out, current_id,
               resp, srvN, srvRows, budget, reqs, status >>

crawlVars == << filtered, limits, nextReq, inflight, ready, running, id_counter,
                feed, item_count, page_count, closing >>

\* the runs of the stand-alone tools
toolVars == << cli, idx, yr, dt, pg, uq >>

\* a tool that is not run
NotRun == [pc |-> "none"]

vars == << scope, toolVars, pc, api, ckan_rows, next_id, ckanVars, crawlVars, output, writes >>

\* what the catalogue stage leaves alone
CkanFrame == UNCHANGED << scope, toolVars, pc, api, ckan_rows, next_id, crawlVars, output, writes >>

\* the rows and start parameters a source URL may carry, and the count its
\* catalogue may report when it holds n packages: every combination within
\* the bounds for scope "fetch", the paginating ones otherwise
RowsArgs == IF scope = "fetch" THEN {Absent} \cup (0..MaxRows) ELSE {Absent, 1}
StartArgs == IF scope = "fetch" THEN {Absent} \cup (0..MaxStart) ELSE {Absent}
CountArgs(n) ==
    IF scope = "fetch" THEN {NoCount} \cup (0..(MaxItems + 1)) ELSE {NoCount, n, n + 1}

\* the page size a catalogue serves when the fetcher reckons with r: r, or
\* (scope "fetch") a smaller one of its own, its default for a URL without
\* rows or its upper limit
ServerRows(r) == IF scope = "fetch" /\ r > 1 THEN {1, r} ELSE {r}

\* the number of packages a catalogue holding n packages serves at offset o
\* for page size r
PageLen(o, r, n) == IF o < n THEN Min(r, n - o) ELSE 0

\* that page, its packages drawn from kinds
PageAt(u, o, r, n, kinds) ==
    [i \in 1..PageLen(o, r, n) |-> Pkg(u, o + i - 1, kinds[i])]

\* load_json_any() of an http(s) URL answered by a: raises on a transport or
\* decoding error ("neterr"), else returns the decoded body
load_json_any(a) ==
    IF a.shape = "neterr"
    THEN [raised |-> TRUE, data |-> Response("notdict", << >>, NoCount)]
    ELSE [raised |-> FALSE, data |-> Response(a.shape, a.results, a.count)]

\* load_json_any() followed by ckan_results_from_page()
LoadPage(a) ==
    LET d == load_json_any(a)
    IN  IF d.raised THEN Raised("transport")
        ELSE ckan_results_from_page(d.data)

\* a fetch_all_pages without the early return
ReturnsFirstPageNever(count) == FALSE

\* fetch_all_pages line 183: "if total is None: return results"
ReturnsFirstPage(count) == count = NoCount

\* fetch_all_pages line 192: the test of "while got < total"
LoopTest(g, t) == g < t

\* a fetch_all_pages that asks for the same offset again
NextOffsetStuck(s, r) == s

\* fetch_all_pages line 193: "start += rows"
NextOffset(s, r) == s + r

\* a fetch_all_pages without the break on an empty page
StopsOnEmptyNever(page) == FALSE

\* fetch_all_pages line 197: "if not page_results: break"
StopsOnEmpty(page) == Len(page) = 0

\* an except branch that ends the loop over the source URLs
AfterFailureBreak(u) == api.n + 1

\* the loop variable of "for url in api_urls" after a failure (except: continue)
AfterFailure(u) == u + 1

\* the per-URL locals are dead once the loop leaves a source URL
ResetLocals ==
    /\ fpc' = "idle"
    /\ rows' = 0 /\ start' = 0 /\ total' = NoCount /\ got' = 0
    /\ results' = << >> /\ resp' = << >> /\ srvN' = 0 /\ srvRows' = 0 /\ reqs' = << >>

\* a failure that hands the pages already fetched on to the transform
UrlFailedKeepsPages(e) ==
    /\ status' = Append(status, e)
    /\ IF fpc = "paged"
       THEN /\ fpc' = "transform" /\ resp' = << >>
            /\ UNCHANGED << url, rows, start, total, got, results, srvN, srvRows, reqs >>
       ELSE /\ url' = AfterFailure(url)
            /\ ResetLocals
    /\ UNCHANGED << out, current_id, budget >>

\* the except branch of _ckan_collect_all (lines 67-69): log, continue
UrlFailed(e) ==
    /\ status' = Append(status, e)
    /\ url' = AfterFailure(url)
    /\ ResetLocals
    /\ UNCHANGED << out, current_id, budget >>

(***************************************************************************)
(* run_pipeline, step 0, and _ckan_collect_all.                            *)
(***************************************************************************)
\* the start_id run_pipeline gives _ckan_collect_all (line 93)
CkanStartId == 1

\* run_pipeline lines 86-98: enter the catalogue stage, or skip it
CkanBegin ==
    /\ pc = "start"
    /\ IF api.exists /\ api.n > 0
       THEN /\ pc' = "ckan"
            /\ url' = 1 /\ out' = << >> /\ current_id' = CkanStartId
            /\ UNCHANGED << ckan_rows, next_id >>
       ELSE /\ pc' = "sitemap"
            /\ ckan_rows' = << >> /\ next_id' = 1
            /\ UNCHANGED << url, out, current_id >>
    /\ UNCHANGED << scope, toolVars, api, fpc, rows, start, total, got, results, resp, srvN, srvRows,
                    budget, reqs, status, crawlVars, output, writes >>

\* an http(s) source URL: fetch_all_pages sends its first request (line 181);
\* the environment fixes the URL's parameters, the catalogue and its answer
SendFirst ==
    /\ pc = "ckan" /\ fpc = "idle" /\ url <= api.n
    /\ \E rp \in RowsArgs, sp \in StartArgs, n \in 0..budget,
          shape \in RespShapes \cup {"neterr"} :
         LET r  == IF rp = Absent THEN DefaultRows ELSE rp
             s0 == IF sp = Absent THEN 0 ELSE sp
         IN  \E sr \in ServerRows(r) :
             \E t \in CountArgs(n), kinds \in [1..PageLen(s0, sr, n) -> PkgKinds(url)] :
               /\ rows' = r /\ start' = s0 /\ srvN' = n /\ srvRows' = sr
               /\ budget' = budget - n
               /\ reqs' = << s0 >>
               /\ resp' = << [shape |-> shape, count |-> t,
                              results |-> PageAt(url, s0, sr, n, kinds)] >>
    /\ fpc' = "first"
    /\ UNCHANGED << url, total, got, results, out, current_id, status >>
    /\ CkanFrame

\* fetch_all_pages lines 181-191: validate the first response, read count
ConsumeFirst ==
    /\ pc = "ckan" /\ fpc = "first"
    /\ LET v == LoadPage(resp[1])
       IN  IF v.raised
           THEN UrlFailed(v.error)
           ELSE IF ~ReturnsFirstPage(v.count) /\ v.count = NoCount
           THEN UrlFailed("type_error")   \* line 192: int < None raises
           ELSE /\ results' = v.results
                /\ total' = v.count
                /\ got' = Len(v.results)
                /\ resp' = << >>
                /\ fpc' = IF ReturnsFirstPage(v.count) THEN "transform"
                          ELSE IF LoopTest(Len(v.results), v.count) THEN "paging"
                          ELSE "transform"
                /\ UNCHANGED << url, rows, start, srvN, srvRows, budget, reqs, out,
                                current_id, status >>
    /\ CkanFrame

\* fetch_all_pages lines 193-195: advance the offset, request the next page
SendNext ==
    /\ pc = "ckan" /\ fpc = "paging"
    /\ start' = NextOffset(start, rows)
    /\ reqs' = Append(reqs, start')
    /\ \E shape \in RespShapes \cup {"neterr"} :
       \E kinds \in [1..PageLen(start', srvRows, srvN) -> PkgKinds(url)] :
         resp' = << [shape |-> shape, count |-> total,
                     results |-> PageAt(url, start', srvRows, srvN, kinds)] >>
    /\ fpc' = "paged"
    /\ UNCHANGED << url, rows, total, got, results, srvN, srvRows, budget, out, current_id,
                    status >>
    /\ CkanFrame

\* fetch_all_pages lines 196-200: validate the page; stop on an empty one,
\* else append it and test the loop condition again
ConsumeNext ==
    /\ pc = "ckan" /\ fpc = "paged"
    /\ LET v == LoadPage(resp[1])
       IN  IF v.raised
           THEN UrlFailed(v.error)
           ELSE /\ resp' = << >>
                /\ IF StopsOnEmpty(v.results)
                   THEN /\ fpc' = "transform"
                        /\ UNCHANGED << results, got >>
                   ELSE /\ results' = results \o v.results
                        /\ got' = got + Len(v.results)
                        /\ fpc' = IF LoopTest(got + Len(v.results), total)
                                  THEN "paging" ELSE "transform"
                /\ UNCHANGED << url, rows, start, total, srvN, srvRows, budget, reqs, out,
                                current_id, status >>
    /\ CkanFrame

\* a source that is no http(s) URL (lines 53-60): load_json_any once, then
\* by the type of what was read
LoadLocal ==
    /\ pc = "ckan" /\ fpc = "idle" /\ url <= api.n
    /\ \E kind \in {"dict", "list", "other", "unreadable"},
          shape \in RespShapes \ {"notdict"}, n \in 0..budget :
       \E kinds \in [1..n -> PkgKinds(url)] :
         LET page == PageAt(url, 0, n, n, kinds)
             v == ckan_results_from_page(Response(shape, page, n))
         IN  CASE kind = "unreadable" -> UrlFailed("unreadable")
               [] kind = "other" ->
                    /\ status' = Append(status, "skipped")
                    /\ url' = url + 1
                    /\ ResetLocals
                    /\ UNCHANGED << out, current_id, budget >>
               [] kind = "list" ->
                    /\ results' = page /\ fpc' = "transform"
                    /\ budget' = budget - n
                    /\ UNCHANGED << url, rows, start, total, got, resp, srvN, srvRows, reqs,
                                    out, current_id, status >>
               [] OTHER ->
                    IF v.raised
                    THEN UrlFailed(v.error)
                    ELSE /\ results' = v.results /\ fpc' = "transform"
                         /\ budget' = budget - n
                         /\ UNCHANGED << url, rows, start, total, got, resp, srvN, srvRows,
                                         reqs, out, current_id, status >>
    /\ CkanFrame

\* _ckan_collect_all lines 62-69: transform the packages of this source URL;
\* an exception ends the loop over them and is caught like any other
Transform ==
    /\ pc = "ckan" /\ fpc = "transform"
    /\ LET t == TransformLoop(results, out, current_id, TRUE)
       IN  /\ out' = t.out
           /\ current_id' = t.current_id
           /\ status' = Append(status, IF t.raised THEN "bad_package" ELSE "ok")
           /\ url' = IF t.raised THEN AfterFailure(url) ELSE url + 1
    /\ ResetLocals
    /\ UNCHANGED budget
    /\ CkanFrame

\* _ckan_collect_all line 71 and run_pipeline line 93
CkanReturn ==
    /\ pc = "ckan" /\ fpc = "idle" /\ url > api.n
    /\ ckan_rows' = out /\ next_id' = current_id
    /\ pc' = "sitemap"
    /\ UNCHANGED << scope, toolVars, api, ckanVars, crawlVars, output, writes >>

(***************************************************************************)
(* run_pipeline, steps 1 to 3: URL index, crawl, merge.                    *)
(***************************************************************************)
\* the item_limit / page_limit arguments a run may be given
LimitArgs == 0..MaxLimit

\* a spider started without start_id (the default of __init__)
SpiderStartIdDefault(next) == 1

\* the start_id run_pipeline gives the spider (line 151), as
\* MainBodySpider.__init__ stores it in _id_counter (line 36)
SpiderStartId(next) == next

\* a parse without the return at line 295
KeepsItemAlways(item) == TRUE

\* MainBodySpider.parse line 294, negated: the item is kept
KeepsItem(item) == Len(item.data_types) > 0

\* a parse that never advances the counter
AdvanceCounterNever(c) == c

\* MainBodySpider.parse line 298
AdvanceCounter(c) == c + 1

\* a run that does not wait for the crawl
CrawlEndedAtOnce == TRUE

\* a crawl that is never found idle
CrawlEndedNever == FALSE

\* process.start() (run_pipeline line 152) returns once the crawl has ended:
\* nothing is being downloaded, queued or parsed
CrawlEnded == inflight = {} /\ Len(ready) = 0 /\ Len(running) = 0

\* a merge that puts the crawl rows first
CombinedCrawlFirst(ckan, spider_rows) == spider_rows \o ckan

\* run_pipeline line 164
Combined(ckan, spider_rows) == ckan \o spider_rows

\* a merge that takes the feed's rows whether or not it could be read
SpiderRowsUnchecked(readable, items) == items

\* run_pipeline lines 157-162: the rows read back from the temporary feed
SpiderRows(readable, items) == IF readable THEN items ELSE << >>

\* a run that writes what it has before it fails
AbandonedAfterWrite ==
    /\ pc' = "crashed"
    /\ output' = ckan_rows /\ writes' = writes + 1
    /\ UNCHANGED crawlVars

\* the exception of collect_urls_from_sitemap (run_pipeline line 103) is not
\* caught: the run ends there
Abandoned ==
    /\ pc' = "crashed"
    /\ UNCHANGED << crawlVars, output, writes >>

\* a run that returns without a write when no URL is left
NothingToCrawlSilent ==
    /\ pc' = "done"
    /\ UNCHANGED << crawlVars, output, writes >>

\* run_pipeline lines 108-113: no URL is left, the catalogue rows are
\* written and the run returns
NothingToCrawl ==
    /\ output' = ckan_rows
    /\ writes' = writes + 1
    /\ pc' = "done"
    /\ UNCHANGED crawlVars

\* run_pipeline lines 103-152 (the history of the catalogue stage is dropped
\* here): collect, dedupe and filter the index URLs; an
\* exception of the collector propagates and ends the run; with no URL left
\* the catalogue rows are written and the run returns; else the crawl starts
SitemapStep ==
    /\ pc = "sitemap"
    /\ \E root \in RootNames, keywords \in KeywordArgs,
          item_limit \in LimitArgs, page_limit \in LimitArgs :
         LET c    == collect_urls_from_sitemap(Web, root)
             urls == dedupe_preserve_order(c.urls)
             kws  == IF Len(keywords) = 0 THEN DEFAULT_KEYWORDS ELSE keywords
             f    == filter_by_keywords(urls, kws)
         IN  IF c.raised
             THEN Abandoned
             ELSE IF Len(f) = 0
             THEN NothingToCrawl
             ELSE /\ filtered' = f
                  /\ limits' = [item |-> item_limit, page |-> page_limit]
                  /\ id_counter' = SpiderStartId(next_id)
                  /\ nextReq' = 1
                  /\ pc' = "crawl"
                  /\ UNCHANGED << inflight, ready, running, feed, item_count,
                                  page_count, closing, output, writes >>
    /\ status' = << >> /\ budget' = 0
    /\ UNCHANGED << scope, toolVars, api, ckan_rows, next_id, url, fpc, rows, start, total,
                    got, results, out, current_id, resp, srvN, srvRows, reqs >>

\* the engine takes the next start request; robots.txt may forbid it
StartRequest ==
    /\ pc = "crawl" /\ ~closing
    /\ nextReq <= Len(filtered)
    /\ Cardinality(inflight) < MaxConcurrent
    /\ \E allowed \in BOOLEAN :
         inflight' = IF allowed THEN inflight \cup {nextReq} ELSE inflight
    /\ nextReq' = nextReq + 1
    /\ UNCHANGED << scope, toolVars, pc, api, ckan_rows, next_id, ckanVars, filtered, limits, ready,
                    running, id_counter, feed, item_count, page_count, closing,
                    output, writes >>

\* a download ends: with an error (no callback), or with a response that is
\* counted and queued for MainBodySpider.parse
Downloaded(i) ==
    /\ pc = "crawl" /\ i \in inflight
    /\ inflight' = inflight \ {i}
    /\ \E kind \in PageKinds \cup {"neterr"} :
         IF kind = "neterr"
         THEN UNCHANGED << ready, page_count, closing >>
         ELSE /\ ready' = Append(ready, [u |-> filtered[i], kind |-> kind])
              /\ page_count' = page_count + 1
              /\ closing' = (closing \/ (limits.page > 0 /\ page_count + 1 >= limits.page))
    /\ UNCHANGED << scope, toolVars, pc, api, ckan_rows, next_id, ckanVars, filtered, limits, nextReq,
                    running, id_counter, feed, item_count, output, writes >>

\* what the callback makes of each kind of page; the request's URL and the
\* counter's value are filled in when the callback runs
ParsedPage ==
    [files |-> ParseItem(<< >>, PageOf("files"), 0),
     nofiles |-> ParseItem(<< >>, PageOf("nofiles"), 0),
     nontext |-> ParseItem(<< >>, PageOf("nontext"), 0)]

\* a crawl that an exception in a callback closes
CallbackFailedCloses == closing' = TRUE /\ UNCHANGED << running, id_counter >>

\* an exception raised by a callback is logged by the crawler run at
\* run_pipeline lines 149-152, and the crawl goes on
CallbackFailed == UNCHANGED << running, id_counter, closing >>

\* MainBodySpider.parse (lines 261-299), called for the oldest queued
\* response and run to its yield or its end without interruption: it raises,
\* returns without an item, or advances the counter and yields the item
Parse ==
    /\ pc = "crawl" /\ Len(running) = 0 /\ Len(ready) > 0
    /\ LET r == Head(ready)
           q == ParsedPage[r.kind]
           p == IF q.kind = "raise" THEN q
                ELSE [q EXCEPT !.item.id = id_counter, !.item.source_url.ref = r.u]
       IN  IF p.kind = "raise"
           THEN CallbackFailed
           ELSE IF KeepsItem(p.item)
           THEN /\ id_counter' = AdvanceCounter(id_counter)
                /\ running' = << p.item >>
                /\ UNCHANGED closing
           ELSE UNCHANGED << running, id_counter, closing >>
    /\ ready' = Tail(ready)
    /\ UNCHANGED << scope, toolVars, pc, api, ckan_rows, next_id, ckanVars, filtered, limits, nextReq,
                    inflight, feed, item_count, page_count,
                    output, writes >>

\* the yielded item passes the item pipeline and is exported to the feed
ItemScraped ==
    /\ pc = "crawl" /\ Len(running) = 1
    /\ running' = << >>
    /\ IF DropsItem(running[1])
       THEN UNCHANGED << feed, item_count, closing >>
       ELSE /\ feed' = Append(feed, running[1])
            /\ item_count' = item_count + 1
            /\ closing' = (closing \/ (limits.item > 0 /\ item_count + 1 >= limits.item))
    /\ UNCHANGED << scope, toolVars, pc, api, ckan_rows, next_id, ckanVars, filtered, limits, nextReq,
                    inflight, ready, id_counter, page_count, output, writes >>

\* the spider is idle or closing with nothing in progress: process.start()
\* returns (run_pipeline line 152)
SpiderClosed ==
    /\ pc = "crawl"
    /\ closing \/ nextReq > Len(filtered)
    /\ CrawlEnded
    /\ pc' = "merge"
    /\ UNCHANGED << scope, toolVars, api, ckan_rows, next_id, ckanVars, crawlVars, output, writes >>

\* run_pipeline lines 157-166: read the feed back (an unreadable or empty
\* feed is logged and gives no rows), concatenate, write
Merge ==
    /\ pc = "merge"
    /\ \E readable \in BOOLEAN :
         /\ output' = Combined(ckan_rows, SpiderRows(readable, feed))
         /\ status' = IF readable THEN status ELSE Append(status, "feed_unreadable")
    /\ writes' = writes + 1
    /\ pc' = "done"
    /\ UNCHANGED << scope, toolVars, api, ckan_rows, next_id, url, fpc, rows, start, total,
                    got, results, out, current_id, resp, srvN, srvRows, budget,
                    reqs, crawlVars >>

(***************************************************************************)
(* Specifications.                                                         *)
(***************************************************************************)
\* api_links.txt: missing, or listing 0..k source URLs
ApiFiles(k) ==
    {[exists |-> FALSE, n |-> 0]} \cup {[exists |-> TRUE, n |-> j] : j \in 0..k}

\* the variables of run_pipeline before its first step (p = "start"), or
\* with the pipeline not run (p = "none")
PipelineAt(p, sc, files) ==
    /\ scope = sc
    /\ pc = p /\ api \in files
    /\ url = 0 /\ fpc = "idle"
    /\ rows = 0 /\ start = 0 /\ total = NoCount /\ got = 0
    /\ results = << >> /\ out = << >> /\ current_id = 1
    /\ ckan_rows = << >> /\ next_id = 1
    /\ srvN = 0 /\ srvRows = 0 /\ budget = MaxItems
    /\ resp = << >> /\ reqs = << >> /\ status = << >>
    /\ filtered = << >> /\ limits = [item |-> 0, page |-> 0]
    /\ nextReq = 1 /\ inflight = {} /\ ready = << >> /\ running = << >>
    /\ id_counter = 1 /\ feed = << >> /\ item_count = 0 /\ page_count = 0
    /\ closing = FALSE /\ output = << >> /\ writes = 0

InitWith(sc, files) ==
    /\ PipelineAt("start", sc, files)
    /\ cli = NotRun /\ idx = NotRun /\ yr = NotRun /\ dt = NotRun /\ pg = NotRun /\ uq = NotRun

CatalogueNext ==
    \/ CkanBegin
    \/ SendFirst
    \/ ConsumeFirst
    \/ SendNext
    \/ ConsumeNext
    \/ LoadLocal
    \/ Transform
    \/ CkanReturn

CrawlNext ==
    \/ SitemapStep
    \/ StartRequest
    \/ \E i \in 1..Len(filtered) : Downloaded(i)
    \/ Parse
    \/ ItemScraped
    \/ SpiderClosed
    \/ Merge

\* the whole pipeline, for a file of at most one source URL
Init == InitWith("pipeline", ApiFiles(1))
Next == CatalogueNext \/ CrawlNext
Spec == Init /\ [][Next]_vars

\* the same runs, with a crawl that does not stand still while a download,
\* a callback, an item or its own end is due
SpecLive == Spec /\ WF_vars(CrawlNext)

\* the catalogue stage alone (run_pipeline up to the return of
\* _ckan_collect_all), for a file of up to MaxApiUrls source URLs
InitCatalogue == InitWith("catalogue", ApiFiles(MaxApiUrls))
SpecCatalogue == InitCatalogue /\ [][CatalogueNext]_vars

\* the catalogue stage for one source URL, over every combination of its
\* parameters and of the catalogue's answers within the bounds
InitFetch == InitWith("fetch", {[exists |-> TRUE, n |-> 1]})
SpecFetch == InitFetch /\ [][CatalogueNext]_vars

(***************************************************************************)
(* The conversion tool (ckan_to_spider_json.main).                         *)
(***************************************************************************)
\* what the tools leave alone
PipelineFrame ==
    UNCHANGED << scope, pc, api, ckan_rows, next_id, ckanVars, crawlVars, output, writes >>

\* the package lists an input may hold
CliPkgLists ==
    UNION {{PageAt(1, 0, n, n, kinds) : kinds \in [1..n -> CliPkgKinds]} : n \in 0..MaxCliPkgs}

\* the answer of the catalogue `site` to a request at offset o: it holds
\* site.pkgs, serves site.page of them for a request and reports site.count
Answer(site, o, shape) ==
    [shape |-> shape, count |-> site.count,
     results |-> SubSeq(site.pkgs, o + 1, Min(o + site.page, Len(site.pkgs)))]

\* fetch_all_pages lines 192-200: the loop over the follow-up pages
RECURSIVE FetchLoop(_, _, _, _)
FetchLoop(site, offset, count, pages) ==
    IF ~LoopTest(Len(pages), count)
    THEN [raised |-> FALSE, error |-> "", results |-> pages, count |-> count]
    ELSE LET o == NextOffset(offset, site.page)
             v == LoadPage(Answer(site, o, site.later))
         IN  IF v.raised THEN v
             ELSE IF StopsOnEmpty(v.results)
             THEN [raised |-> FALSE, error |-> "", results |-> pages, count |-> count]
             ELSE FetchLoop(site, o, count, pages \o v.results)

\* fetch_all_pages() of a URL that asks site for site.page rows from offset 0
fetch_all_pages(site) ==
    LET v == LoadPage(Answer(site, 0, site.shape))
    IN  IF v.raised THEN v
        ELSE IF ReturnsFirstPage(v.count) THEN v
        ELSE IF v.count = NoCount THEN Raised("type_error")
        ELSE FetchLoop(site, 0, v.count, v.results)

\* main lines 213-227, the package list or the way the run ends instead:
\* the response to a URL is fetched and validated, which may raise, with
\* --all every page by fetch_all_pages; a file or stdin is read by
\* load_json_any, which may raise, and taken by its structure alone, the
\* success indicator unread; looking for "results" in a result that is no
\* container raises
CliInput(kind, all, site) ==
    CASE kind = "http" ->
           LET v == IF all THEN fetch_all_pages(site)
                    ELSE LoadPage(Answer(site, 0, site.shape))
           IN  IF v.raised THEN [end |-> "crashed", pkgs |-> << >>]
               ELSE [end |-> "", pkgs |-> v.results]
      [] kind = "list" -> [end |-> "", pkgs |-> site.pkgs]
      [] kind = "unreadable" -> [end |-> "crashed", pkgs |-> << >>]
      [] OTHER ->
           LET data == Response(site.shape, site.pkgs, site.count)
           IN  IF data.isdict /\ data.has_result /\ ~data.result_container
               THEN [end |-> "crashed", pkgs |-> << >>]
               ELSE IF data.isdict /\ data.has_result /\ data.has_results
               THEN [end |-> "", pkgs |-> site.pkgs]
               ELSE [end |-> "exit2", pkgs |-> << >>]

\* what the input may be: a catalogue behind a URL, with the page size the
\* URL asks for, the count it reports and the shape of its answers to the
\* follow-up requests of --all, or a file or stdin holding all of pkgs
CliSites(kind, all, shape, pkgs) ==
    {[shape |-> shape, later |-> later, pkgs |-> pkgs, page |-> page, count |-> count] :
        later \in (IF kind = "http" /\ all THEN RespShapes \cup {"neterr"} ELSE {"ok"}),
        page \in (IF kind = "http" THEN 1..MaxRows ELSE {Len(pkgs)}),
        count \in (IF kind = "http" /\ all
                   THEN {NoCount} \cup (0..(Len(pkgs) + 1)) ELSE {NoCount})}

\* main lines 204-227: parse the arguments, get the package list
CliLoad ==
    /\ cli.pc = "start"
    /\ \E kind \in {"http", "dict", "list", "unreadable"},
          shape \in RespShapes \cup {"neterr"}, pkgs \in CliPkgLists :
       \E site \in CliSites(kind, cli.all, shape, pkgs) :
         LET r == CliInput(kind, cli.all, site)
             given == [kind |-> kind, shape |-> shape]
         IN  cli' = IF r.end # ""
                    THEN [cli EXCEPT !.pc = r.end, !.input = given]
                    ELSE [cli EXCEPT !.pc = "loaded", !.input = given,
                                     !.pkgs = r.pkgs]
    /\ UNCHANGED << idx, yr, dt, pg, uq >>
    /\ PipelineFrame

\* main lines 229-238: transform the packages and write the rows; a package
\* that is no JSON object raises and the run ends without a write
CliTransform ==
    /\ cli.pc = "loaded"
    /\ LET t == TransformLoop(cli.pkgs, << >>, cli.start_id, ~cli.keep_empty)
       IN  cli' = IF t.raised
                  THEN [cli EXCEPT !.pc = "crashed"]
                  ELSE [cli EXCEPT !.pc = "done", !.output = t.out, !.writes = 1]
    /\ UNCHANGED << idx, yr, dt, pg, uq >>
    /\ PipelineFrame

\* the exit status of a run that ended at p: sys.exit(2) at line 227, an
\* uncaught exception (status 1), or the return from main
ExitCode(p) ==
    CASE p = "exit2" -> 2
      [] p = "crashed" -> 1
      [] OTHER -> 0

CliNext ==
    \/ CliLoad
    \/ CliTransform

\* a run of the tool with any --keep-empty, --all and --start-id
InitCli ==
    /\ PipelineAt("none", "cli", {[exists |-> FALSE, n |-> 0]})
    /\ \E keep_empty \in BOOLEAN, all \in BOOLEAN, start_id \in 1..MaxCliStart :
         cli = [pc |-> "start", keep_empty |-> keep_empty, all |-> all,
                start_id |-> start_id, input |-> [kind |-> "", shape |-> ""],
                pkgs |-> << >>, output |-> << >>, writes |-> 0]
    /\ idx = NotRun /\ yr = NotRun /\ dt = NotRun /\ pg = NotRun /\ uq = NotRun

SpecCli == InitCli /\ [][CliNext]_vars

\* everything that writes records: the pipeline and the conversion tool
InitPersist == Init \/ InitCli
NextPersist == Next \/ CliNext
SpecPersist == InitPersist /\ [][NextPersist]_vars

(***************************************************************************)
(* The URL filter tool (sitemap_filter.main).                              *)
(***************************************************************************)
\* str.split(","): the pieces between the commas, empty ones included
RECURSIVE SplitCommas(_, _, _)
SplitCommas(s, cur, acc) ==
    IF Len(s) = 0 THEN Append(acc, cur)
    ELSE IF Head(s) = ","
         THEN SplitCommas(Tail(s), << >>, Append(acc, cur))
         ELSE SplitCommas(Tail(s), Append(cur, Head(s)), acc)

\* main lines 99-101: the built-in keywords unless --keywords is given and
\* not empty; its pieces are stripped and the empty ones left out
KeywordsOf(arg) ==
    IF Len(arg) = 0 THEN DEFAULT_KEYWORDS
    ELSE SelectSeq([i \in 1..Len(SplitCommas(arg, << >>, << >>)) |->
                       strip(SplitCommas(arg, << >>, << >>)[i])],
                   LAMBDA k : Len(k) > 0)

\* main lines 104-105: filtered[:limit] when a positive limit is given
Limited(kept, limit) ==
    IF limit > 0 /\ limit < Len(kept) THEN SubSeq(kept, 1, limit) ELSE kept

\* sequences over S of length at most n
SeqsUpTo(S, n) == UNION {[1..k -> S] : k \in 0..n}

\* the root index documents a run of the tool may be given
RootDocs ==
    {Doc(ok, urls, sitemaps) :
        ok \in BOOLEAN,
        urls \in SeqsUpTo({UrlApi, UrlAbout, UrlCsv}, MaxLocs),
        sitemaps \in SeqsUpTo({"c1", "c2", "cbad", "cnested"}, MaxChildren)}

\* the site with the given document at the tool's sitemap_url
WebWith(root) ==
    [name \in DOMAIN Web \cup {"root"} |-> IF name = "root" THEN root ELSE Web[name]]

\* the values of --keywords (<< >> when absent) and of --limit
KeywordStrings ==
    {<< >>,
     << "A", "P", "I" >>,
     << " ", "a", "b", "o", "u", "t", " ", ",", " " >>,
     << "d", "a", "t", "a", ",", "c", "s", "v" >>,
     << "," >>}

IdxLimits == -1..MaxIdxLimit

\* main lines 96-97: collect the URLs and remove the repeated ones; an
\* exception ends the run with exit status 1 (lines 115-117)
IdxCollect ==
    /\ idx.pc = "start"
    /\ LET c == collect_urls_from_sitemap(WebWith(idx.root), "root")
       IN  idx' = IF c.raised
                  THEN [idx EXCEPT !.pc = "exit1"]
                  ELSE [idx EXCEPT !.pc = "collected", !.urls = c.urls,
                                   !.deduped = dedupe_preserve_order(c.urls)]
    /\ UNCHANGED << cli, yr, dt, pg, uq >>
    /\ PipelineFrame

\* main lines 99-113: choose the keywords, filter, cut to the limit, write
IdxFilter ==
    /\ idx.pc = "collected"
    /\ \E arg \in KeywordStrings, limit \in IdxLimits :
         LET keywords == KeywordsOf(arg)
             kept == filter_by_keywords(idx.deduped, keywords)
         IN  idx' = [idx EXCEPT !.pc = "done", !.keywords = keywords,
                                !.filtered = kept, !.limit = limit,
                                !.out = Limited(kept, limit)]
    /\ UNCHANGED << cli, yr, dt, pg, uq >>
    /\ PipelineFrame

IdxNext ==
    \/ IdxCollect
    \/ IdxFilter

\* a run of the tool on any root document
InitIndex ==
    /\ PipelineAt("none", "index", {[exists |-> FALSE, n |-> 0]})
    /\ \E root \in RootDocs :
         idx = [pc |-> "start", root |-> root, urls |-> << >>, deduped |-> << >>,
                keywords |-> << >>, filtered |-> << >>, limit |-> 0, out |-> << >>]
    /\ cli = NotRun /\ yr = NotRun /\ dt = NotRun /\ pg = NotRun /\ uq = NotRun

SpecIndex == InitIndex /\ [][IdxNext]_vars

(***************************************************************************)
(* The year of a package (guess_year).                                     *)
(***************************************************************************)
\* guess_year lines 56-62: the years of the resources' timestamps, in the
\* order of the resources and of the keys; an absent or empty value is << >>
RECURSIVE ResourceYears(_, _)
ResourceYears(resources, years) ==
    IF Len(resources) = 0 THEN years
    ELSE LET r == Head(resources)
             vs == << r.last_modified, r.created, r.metadata_modified >>
             found == SelectSeq(vs, LAMBDA v : Len(v) > 0 /\ Len(YearSearch(v)) > 0)
         IN  ResourceYears(Tail(resources),
                           years \o [i \in 1..Len(found) |-> IntOf(YearSearch(found[i]))])

\* max() of a non-empty list
MaxOf(years) == CHOOSE y \in Range(years) : \A z \in Range(years) : z <= y

\* a guess that asks the temporal coverage before the title
guess_year_temporal_first(title, temporal_from, resources) ==
    IF Len(temporal_from) > 0 /\ Len(YearSearch(temporal_from)) > 0
    THEN YearSearch(temporal_from)
    ELSE IF Len(YearSearch(clean(title))) > 0 THEN YearSearch(clean(title))
    ELSE LET years == ResourceYears(resources, << >>)
         IN  IF Len(years) > 0 THEN StrOf(MaxOf(years)) ELSE << >>

\* guess_year(); None and "" are << >>
guess_year(title, temporal_from, resources) ==
    IF Len(YearSearch(clean(title))) > 0 THEN YearSearch(clean(title))
    ELSE IF Len(temporal_from) > 0 /\ Len(YearSearch(temporal_from)) > 0
    THEN YearSearch(temporal_from)
    ELSE LET years == ResourceYears(resources, << >>)
         IN  IF Len(years) > 0 THEN StrOf(MaxOf(years)) ELSE << >>

\* the titles, temporal_coverage_from values and timestamps of the packages
Title2023 == << "2", "0", "2", "3", " ", "A", "n", "n", "u", "a", "l", " ", "R", "e", "p", "o", "r", "t" >>
YearTitles ==
    {Title2023,
     << " ", " ", "R", "e", "p", "o", "r", "t", " ", "o", "f", " ", " ", "1", "9", "9", "9", " ", "a", "n", "d", " ", "2", "0", "2", "1" >>,
     << "Q", "1", "_", "2", "0", "2", "4", " ", "A", "2", "0", "2", "3", " ", "2", "0", "2", "3", "5", " ", "1", "8", "9", "9", " ", "2", "2", "5", "0" >>,
     << "R", "e", "p", "o", "r", "t" >>,
     << >>}

YearTemporals ==
    {<< >>,
     << "2", "0", "2", "2", "-", "0", "7", "-", "0", "1" >>,
     << "2", "0", "2", "2", "1", "2", "3", "1", " ", "n", "/", "a" >>}

Stamp2024 == << "2", "0", "2", "4", "-", "0", "1", "-", "1", "5", "T", "1", "0", ":", "0", "0" >>
YearResources ==
    [last_modified : {<< >>, Stamp2024, << "1", "9", "9", "9" >>},
     created : {<< >>, << "2", "0", "1", "9", "/", "0", "5", "/", "0", "1" >>},
     metadata_modified : {<< >>, << "e", "a", "r", "l", "y", " ", "2", "1", "5", "0", "s", ",", " ", "2", "1", "0", "0" >>}]

\* one call of guess_year
YearGuess ==
    /\ yr.pc = "start"
    /\ yr' = [yr EXCEPT !.pc = "done",
                        !.year = guess_year(yr.title, yr.temporal_from, yr.resources)]
    /\ UNCHANGED << cli, idx, dt, pg, uq >>
    /\ PipelineFrame

YearNext == YearGuess

\* a call with any title, temporal coverage and resources
InitYear ==
    /\ PipelineAt("none", "year", {[exists |-> FALSE, n |-> 0]})
    /\ \E title \in YearTitles, temporal_from \in YearTemporals,
          resources \in SeqsUpTo(YearResources, MaxResources) :
         yr = [pc |-> "start", title |-> title, temporal_from |-> temporal_from,
               resources |-> resources, year |-> << >>]
    /\ cli = NotRun /\ idx = NotRun /\ dt = NotRun /\ pg = NotRun /\ uq = NotRun

SpecYear == InitYear /\ [][YearNext]_vars

(***************************************************************************)
(* The data_types normalizers, called on their own.                        *)
(***************************************************************************)
\* the resources a package may carry: a format and a URL path, either may
\* be missing
TypeResources ==
    [format : {<< >>, << " ", "C", "S", "V" >>, << "H", "T", "M" >>, << "h", "t", "m", "l" >>, << "E", "s", "r", "i", " ", " ", "R", "E", "S", "T" >>},
     url : {<< >>, << "/", "f", ".", "H", "T", "M" >>, << "/", "a", "/", "b", ".", "h", "t", "m", "l" >>, << "/", "d", ".", "x", "/", "f" >>, << "/", "r", ".", "c", "s", "v" >>}]

\* the anchors a page's container may hold
TypeAnchors ==
    [class : {<< >>, << "b", "t", "n", " ", "f", "i", "l", "e", " ", "T", "y", "p", "e", "-", "X", "L", "S", "X" >>, << "f", "i", "l", "e", " ", "t", "y", "p", "e", "-", "h", "t", "m", " ", "t", "y", "p", "e", "-", "h", "t", "m", "l" >>, << "t", "y", "p", "e", "-", "p", "d", "f" >>},
     href : {<< >>, << "/", "f", "/", "a", ".", "H", "T", "M" >>, << "/", "b", ".", "h", "t", "m", "l", "," >>, << "/", "a", "b", "o", "u", "t", "/" >>, << "/", "c", ".", "X", "L", "S", "X" >>}]

\* collect_data_types() on the resources of a package
TypesOfPackage ==
    /\ dt.pc = "start" /\ dt.side = "catalogue"
    /\ dt' = [dt EXCEPT !.pc = "done",
                        !.data_types = collect_data_types(dt.resources)]
    /\ UNCHANGED << cli, idx, yr, pg, uq >>
    /\ PipelineFrame

\* the data_types of the item parse builds from the anchors of a page
TypesOfPage ==
    /\ dt.pc = "start" /\ dt.side = "page"
    /\ dt' = [dt EXCEPT !.pc = "done",
                        !.data_types =
                            ParseItem(<< >>,
                                      [text |-> TRUE, doc_title |-> << >>,
                                       regions |-> << RegionOf(Region("div", "", "", {}, FALSE),
                                                               [NoContent EXCEPT !.anchors = dt.anchors]) >>],
                                      1).item.data_types]
    /\ UNCHANGED << cli, idx, yr, pg, uq >>
    /\ PipelineFrame

TypesNext ==
    \/ TypesOfPackage
    \/ TypesOfPage

\* a call of either normalizer on any input
InitTypes ==
    /\ PipelineAt("none", "types", {[exists |-> FALSE, n |-> 0]})
    /\ \/ \E resources \in SeqsUpTo(TypeResources, MaxTypeSources) :
            dt = [pc |-> "start", side |-> "catalogue", resources |-> resources,
                  anchors |-> << >>, data_types |-> << >>]
       \/ \E anchors \in SeqsUpTo(TypeAnchors, MaxTypeSources) :
            dt = [pc |-> "start", side |-> "page", resources |-> << >>,
                  anchors |-> anchors, data_types |-> << >>]
    /\ cli = NotRun /\ idx = NotRun /\ yr = NotRun /\ pg = NotRun /\ uq = NotRun

SpecTypes == InitTypes /\ [][TypesNext]_vars

(***************************************************************************)
(* The page extractor on pages of its own (MainBodySpider.parse).          *)
(***************************************************************************)
\* the shapes and the contents of the regions of the modelled pages
RegionShapes ==
    {Region("main", "main-content", "", {}, FALSE),
     Region("div", "main-content", "", {}, FALSE),
     Region("main", "", "main", {}, FALSE),
     Region("article", "", "", {"node"}, FALSE),
     Region("article", "", "article", {}, FALSE),
     Region("article", "", "", {}, FALSE),
     Region("div", "", "main", {}, FALSE),
     Region("div", "", "", {"region-content"}, TRUE),
     Region("div", "", "", {"region", "region-content"}, FALSE),
     Region("div", "", "", {}, FALSE)}

H1One == << " ", "O", "n", "e", " " >>
H1Two == << "T", "w", "o" >>
Site1999 == << " ", "S", "i", "t", "e", " ", "1", "9", "9", "9", " " >>
RegionContents ==
    {[h1 |-> H1One,
      anchors |-> << Anchor(<< >>, << "/", "a", ".", "c", "s", "v" >>) >>,
      blocks |-> << [tag |-> "div", classes |-> {"node-intro"}, text |-> << "A", "n", " ", " ", "i", "n", "t", "r", "o" >>],
                    [tag |-> "div", classes |-> {"field--name-field-license"}, text |-> << "C", "C" >>],
                    [tag |-> "p", classes |-> {}, text |-> << "P", "a", "r", "a" >>] >>,
      details |-> << [dts |-> << << "C", "r", "e", "a", "t", "o", "r" >>, << "D", "a", "t", "e" >> >>, dds |-> << << "A", "B", "S" >>, << "M", "a", "y", " ", "2", "0", "2", "1" >> >>] >>,
      tags |-> << << "A", "i", "r" >>, << " ", "a", "i", "r", " " >>, << "S", "e", "a" >> >>,
      times |-> << >>],
     [h1 |-> H1Two,
      anchors |-> << Anchor(<< "f", "i", "l", "e", " ", "t", "y", "p", "e", "-", "p", "d", "f" >>, << "/", "b", "/" >>) >>,
      blocks |-> << [tag |-> "p", classes |-> {"summary"}, text |-> << "S", "u", "m" >>],
                    [tag |-> "div", classes |-> {"field--name-field-publication-publisher"}, text |-> << "D", "e", "p", "t" >>],
                    [tag |-> "div", classes |-> {"field--name-field-publication-coverage"}, text |-> << "V", "i", "c" >>] >>,
      details |-> << [dts |-> << << "C", "r", "e", "a", "t", "o", "r" >>, << "C", "o", "v", "e", "r", "a", "g", "e" >>, << "P", "u", "b", "l", "i", "s", "h", "e", "d" >> >>, dds |-> << << >>, << >> >>] >>,
      tags |-> << >>,
      times |-> << [datetime |-> << "2", "0", "2", "0", "-", "0", "1", "-", "0", "1" >>, text |-> << "J", "a", "n" >>] >>],
     [h1 |-> << >>,
      anchors |-> << Anchor(<< >>, << "/", "c", ".", "x", "l", "s", "x" >>) >>,
      blocks |-> << [tag |-> "p", classes |-> {}, text |-> << "T", "e", "x", "t" >>] >>,
      details |-> << [dts |-> << << "D", "a", "t", "e" >> >>, dds |-> << << "n", "/", "a" >> >>],
                     [dts |-> << << "P", "u", "b", "l", "i", "s", "h", "e", "r" >>, << "C", "o", "v", "e", "r", "a", "g", "e" >>, << "P", "u", "b", "l", "i", "c", "a", "t", "i", "o", "n", " ", "d", "a", "t", "e" >>, << "D", "a", "t", "e" >> >>,
                      dds |-> << << "C", "S", "I", "R", "O" >>, << "Q", "l", "d" >>, << "2", "0", "2", "1" >>, << "2", "0", "1", "8" >> >>] >>,
      tags |-> << >>,
      times |-> << >>]}

PageRegions == {RegionOf(sh, c) : sh \in RegionShapes, c \in RegionContents}

DocTitles == {<< >>, Site1999}

\* parse lines 262-291 on one page: the container _sel chooses and the item
\* built from it
PageExtract ==
    /\ pg.pc = "start"
    /\ pg' = [pg EXCEPT !.pc = "done",
                        !.container = sel(pg.regions),
                        !.result = ParseItem(<< >>,
                                             [text |-> TRUE, doc_title |-> pg.doc_title,
                                              regions |-> pg.regions],
                                             1)]
    /\ UNCHANGED << cli, idx, yr, dt, uq >>
    /\ PipelineFrame

PageNext == PageExtract

\* the extractor on any page of up to MaxRegions regions
InitPage ==
    /\ PipelineAt("none", "page", {[exists |-> FALSE, n |-> 0]})
    /\ \E regions \in SeqsUpTo(PageRegions, MaxRegions), doc_title \in DocTitles :
         pg = [pc |-> "start", regions |-> regions, doc_title |-> doc_title,
               container |-> {}, result |-> [kind |-> "none"]]
    /\ cli = NotRun /\ idx = NotRun /\ yr = NotRun /\ dt = NotRun /\ uq = NotRun

SpecPage == InitPage /\ [][PageNext]_vars

(***************************************************************************)
(* The follow-up URLs of fetch_all_pages (update_query).                   *)
(***************************************************************************)
\* a query string is the sequence of its name=value pairs; parse_qs gives a
\* dict, modelled as the sequence of its entries in insertion order
Param(k, v) == [k |-> k, v |-> v]

HasKey(d, k) == \E i \in 1..Len(d) : d[i].k = k

\* d[k] = vs: in place when the key is there, else as a new last entry
DictSet(d, k, vs) ==
    IF HasKey(d, k)
    THEN [i \in 1..Len(d) |-> IF d[i].k = k THEN [k |-> k, vs |-> vs] ELSE d[i]]
    ELSE Append(d, [k |-> k, vs |-> vs])

\* d.get(k, default)
DictGet(d, k, default) ==
    IF HasKey(d, k) THEN d[CHOOSE i \in 1..Len(d) : d[i].k = k].vs ELSE default

\* parse_qs(query, keep_blank_values=True)
RECURSIVE ParseQs(_, _)
ParseQs(pairs, d) ==
    IF Len(pairs) = 0 THEN d
    ELSE LET p == Head(pairs)
         IN  ParseQs(Tail(pairs),
                     DictSet(d, p.k, Append(DictGet(d, p.k, << >>), p.v)))

parse_qs(query) == ParseQs(query, << >>)

\* urlencode(q, doseq=True): one pair for each value of each entry
RECURSIVE urlencode(_)
urlencode(d) ==
    IF Len(d) = 0 THEN << >>
    ELSE [i \in 1..Len(Head(d).vs) |-> Param(Head(d).k, Head(d).vs[i])]
         \o urlencode(Tail(d))

\* an update that keeps nothing but the offset
update_query_start_only(query, start_value) ==
    << Param("start", StrOf(start_value)) >>

\* update_query(url, start=...): the query of the URL it returns
update_query(query, start_value) ==
    urlencode(DictSet(parse_qs(query), "start", << StrOf(start_value) >>))

\* the parameters a source URL may carry
QueryParams ==
    {Param("q", << "x" >>), Param("q", << "y" >>), Param("fq", << >>),
     Param("rows", << "1" >>), Param("rows", << "2" >>),
     Param("start", << "0" >>), Param("start", << "3" >>)}

\* fetch_all_pages lines 186-189: rows and start as the URL gives them
QueryRead ==
    /\ uq.pc = "start"
    /\ LET params == parse_qs(uq.query)
       IN  uq' = [uq EXCEPT !.pc = "loop",
                           !.rows = IntOf(DictGet(params, "rows", << StrOf(DefaultRows) >>)[1]),
                           !.start = IntOf(DictGet(params, "start", << << "0" >> >>)[1])]
    /\ UNCHANGED << cli, idx, yr, dt, pg >>
    /\ PipelineFrame

\* fetch_all_pages lines 193-194: the next follow-up URL
QueryFollowUp ==
    /\ uq.pc = "loop" /\ Len(uq.sent) < MaxFollowUps
    /\ uq' = [uq EXCEPT !.start = NextOffset(uq.start, uq.rows),
                        !.sent = Append(uq.sent,
                                        update_query(uq.query,
                                                     NextOffset(uq.start, uq.rows)))]
    /\ UNCHANGED << cli, idx, yr, dt, pg >>
    /\ PipelineFrame

QueryNext ==
    \/ QueryRead
    \/ QueryFollowUp

\* the follow-up URLs of any source URL
InitQuery ==
    /\ PipelineAt("none", "query", {[exists |-> FALSE, n |-> 0]})
    /\ \E query \in SeqsUpTo(QueryParams, MaxParams) :
         uq = [pc |-> "start", query |-> query, rows |-> 0, start |-> 0,
               sent |-> << >>]
    /\ cli = NotRun /\ idx = NotRun /\ yr = NotRun /\ dt = NotRun /\ pg = NotRun

\* the requests of fetch_all_pages: their offsets as the catalogue sees
\* them, and their URLs
InitRequests == InitFetch \/ InitQuery
NextRequests == CatalogueNext \/ QueryNext
SpecRequests == InitRequests /\ [][NextRequests]_vars

(***************************************************************************)
(* Properties.                                                             *)
(***************************************************************************)
\* the log entries that record a failed source URL
Failures == {"not_a_response", "success_false", "transport", "unreadable",
             "bad_package", "type_error"}

StrictlyIncreasing(seq) == \A i \in 1..(Len(seq) - 1) : seq[i].id < seq[i + 1].id

IsCrawlRow(r) == r.source_url.base = "page"

\* the names of the packages of a list, in order
Names(pkgs) == [i \in 1..Len(pkgs) |-> pkgs[i].name]

\* the names of the packages the catalogue behind source URL u holds at
\* offsets a .. b-1, in server order
ServerSlice(u, a, b) == [i \in 1..(IF b > a THEN b - a ELSE 0) |-> PkgName(u, a + i - 1)]

\* the source URL (its position in api_urls) whose catalogue holds the
\* package a row's source_url names: the digits before the "-" of the
\* name, which a harvested package's address carries after "h/"
RECURSIVE DigitsBeforeDash(_)
DigitsBeforeDash(t) ==
    IF Len(t) = 0 \/ t[1] = "-" THEN << >>
    ELSE << t[1] >> \o DigitsBeforeDash(Tail(t))

SourceOf(row) ==
    LET ref == row.source_url.ref
    IN  IntOf(DigitsBeforeDash(IF ref[1] = "h" THEN SubSeq(ref, 3, Len(ref)) ELSE ref))

\* the rows of a list that come from source URL u
RowsFrom(u, seq) == SelectSeq(seq, LAMBDA r : SourceOf(r) = u)

\* C1: with k catalogue records kept, the first identifier the crawl stage
\* assigns is k+1 (and every identifier it holds is above k), and the
\* identifiers of the written output are strictly increasing in output order
C1_IdContinuity ==
    /\ pc \in {"crawl", "merge", "done"} =>
         /\ Len(feed) > 0 => feed[1].id = Len(ckan_rows) + 1
         /\ \A i \in 1..Len(running) : running[i].id > Len(ckan_rows)
    /\ pc = "done" => StrictlyIncreasing(output)

\* a finished run that kept two catalogue records and two crawl records and
\* dropped a page in between
C1_Witness ==
    /\ pc = "done" /\ Len(ckan_rows) >= 2
    /\ Len(output) >= Len(ckan_rows) + 2
    /\ page_count > Len(feed)

\* the packages of a list whose derived data_types is non-empty, in order
KeptPkgs(pkgs) ==
    SelectSeq(pkgs, LAMBDA p : Len(collect_data_types(p.resources)) > 0)

\* their records, numbered s, s+1, ...
ExpectedRows(pkgs, s) ==
    [i \in 1..Len(KeptPkgs(pkgs)) |->
        [id |-> s + i - 1,
         source_url |-> guess_source_url(KeptPkgs(pkgs)[i]),
         data_types |-> collect_data_types(KeptPkgs(pkgs)[i].resources)]]

\* C2: transforming a list of packages (JSON objects) from counter value s
\* appends exactly the records of the packages with non-empty data_types, in
\* input order, numbered s, s+1, ..., and advances the counter by their number
C2_DropAndDensity ==
    [][(pc = "ckan" /\ fpc = "transform"
          /\ \A i \in 1..Len(results) : results[i].isdict)
       => /\ out' = out \o ExpectedRows(results, current_id)
          /\ current_id' = current_id + Len(KeptPkgs(results))]_vars

\* the second source URL was transformed without failure after the first had
\* contributed a record: its package at offset 0 was dropped, the one at
\* offset 1 kept
C2_Witness ==
    /\ Len(status) = 2 /\ status[2] = "ok"
    /\ \E i \in 2..Len(out) :
         /\ out[i].source_url.ref = << "h", "/" >> \o PkgName(2, 1)
         /\ SourceOf(out[i - 1]) = 1

\* C3 as claimed: when the reported total T is the catalogue's size, the
\* returned list holds all T results, each once, in server order
C3_AllTotalResults ==
    (pc = "ckan" /\ fpc = "transform" /\ Len(reqs) > 0
       /\ total # NoCount /\ total = srvN)
    => Names(results) = ServerSlice(url, 0, total)

\* C3 amended: when the catalogue serves pages of the size the fetcher
\* advances by (the URL's rows, 100 without one) and that size is at least 1,
\* the returned list holds the results at offsets start .. T-1 (start the
\* URL's offset), each once, in server order; so all T results when the
\* URL's offset is 0
C3_ResultsFromOffset ==
    (pc = "ckan" /\ fpc = "transform" /\ Len(reqs) > 0
       /\ total # NoCount /\ total = srvN /\ rows >= 1 /\ srvRows = rows)
    => Names(results) = ServerSlice(url, reqs[1], total)

\* three results fetched from offset 0 over three pages
C3_Witness ==
    /\ pc = "ckan" /\ fpc = "transform"
    /\ total = srvN /\ rows = 1 /\ srvRows = 1 /\ reqs = << 0, 1, 2 >>
    /\ Len(results) = 3

\* C4: a valid follow-up page with zero results ends the loop: no error, no
\* further request, and the accumulated results are what is returned
C4_ShortPageTermination ==
    [][(pc = "ckan" /\ fpc = "paged"
          /\ resp[1].shape \in {"ok", "nosuccess"} /\ Len(resp[1].results) = 0)
       => /\ fpc' = "transform"
          /\ results' = results /\ reqs' = reqs
          /\ status' = status /\ url' = url]_vars

\* the total was overstated: the last of several requests met an empty page
\* and the results of the earlier pages were returned
C4_Witness ==
    /\ pc = "ckan" /\ fpc = "transform"
    /\ total # NoCount /\ total > srvN
    /\ Len(reqs) >= 3 /\ PageLen(reqs[Len(reqs)], srvRows, srvN) = 0
    /\ Len(results) = srvN /\ Len(results) >= 2

\* C5: a source URL that has been left (by failure or not) contributes no
\* further record; a failure moves the loop to the next source URL; and the
\* stage returns only after every source URL was processed, with the rows
\* and the counter it accumulated
C5_FailureIsolated ==
    [][/\ \A u \in 1..Len(status) : RowsFrom(u, out') = RowsFrom(u, out)
       /\ Len(status') > Len(status) =>
            /\ pc' = "ckan" /\ url' = url + 1
            /\ Len(status') = url
       /\ (pc = "ckan" /\ pc' # "ckan") =>
            /\ pc' = "sitemap"
            /\ Len(status) = api.n
            /\ ckan_rows' = out /\ next_id' = current_id]_vars

\* the first source URL failed, the second was still fetched and
\* transformed, and the stage returned its record
C5_Witness ==
    /\ pc = "sitemap" /\ Len(status) = 2
    /\ status[1] \in Failures /\ status[2] = "ok"
    /\ Len(RowsFrom(2, ckan_rows)) >= 1
    /\ next_id = Len(ckan_rows) + 1

\* C6 as claimed: a consumed response (first page or follow-up) that lacks
\* the success indicator, lacks the result/results list, is no object, or
\* reports failure makes the fetch of its source URL fail
C6_InvalidResponseFails ==
    [][(pc = "ckan" /\ fpc \in {"first", "paged"}
          /\ resp[1].shape \in {"nosuccess", "failure", "noresult", "nullresult",
                                "noresults", "notdict"})
       => /\ Len(status') = Len(status) + 1
          /\ status'[Len(status')] \in Failures]_vars

\* C6 amended: a consumed response (first page or follow-up) makes the fetch
\* fail exactly when it cannot be fetched or decoded, is no object, lacks the
\* result/results list, or carries a false success indicator; a response
\* without a success indicator counts as successful and its results are taken
C6_ValidatedEveryPage ==
    [][(pc = "ckan" /\ fpc \in {"first", "paged"})
       => /\ (resp[1].shape \in {"neterr", "notdict", "noresult", "nullresult",
                                 "noresults", "failure"})
             <=> (/\ Len(status') = Len(status) + 1
                  /\ status'[Len(status')] \in Failures
                  /\ url' = url + 1 /\ out' = out /\ fpc' = "idle")
          /\ resp[1].shape = "failure"
             => status'[Len(status')] = "success_false"
          /\ resp[1].shape \in {"notdict", "noresult", "noresults"}
             => status'[Len(status')] = "not_a_response"
          /\ resp[1].shape = "nullresult"
             => status'[Len(status')] = "type_error"
          /\ resp[1].shape \in {"ok", "nosuccess"}
             => /\ status' = status
                /\ results' = (IF fpc = "first" THEN << >> ELSE results)
                                \o resp[1].results]_vars

\* the fetch of the first source URL failed on a response that reported
\* failure, nothing of it was kept, and the loop is at the second source URL
C6_Witness ==
    /\ pc = "ckan" /\ Len(status) = 1 /\ status[1] = "success_false"
    /\ url = 2 /\ fpc = "idle" /\ out = << >>

\* C7: the written output is the catalogue records, in the order they were
\* kept, followed by the crawl records, in the order they were kept (all of
\* them, or none when the crawl's feed cannot be read back); within each
\* group the identifiers ascend
C7_CatalogueBeforeCrawl ==
    pc = "done" =>
      /\ \A i, j \in 1..Len(output) :
           (IsCrawlRow(output[i]) /\ ~IsCrawlRow(output[j])) => j < i
      /\ SelectSeq(output, LAMBDA r : ~IsCrawlRow(r)) = ckan_rows
      /\ SelectSeq(output, IsCrawlRow) \in {feed, << >>}
      /\ StrictlyIncreasing(SelectSeq(output, LAMBDA r : ~IsCrawlRow(r)))
      /\ StrictlyIncreasing(SelectSeq(output, IsCrawlRow))

\* a written output of catalogue records followed by two crawl records that
\* were kept in the reverse of the order their URLs were requested in
C7_Witness ==
    /\ pc = "done" /\ Len(ckan_rows) >= 1 /\ Len(feed) = 2
    /\ output = ckan_rows \o feed
    /\ feed[1].source_url.ref = filtered[2]
    /\ feed[2].source_url.ref = filtered[1]

\* C8: the output is written at most once; a write happens only after the
\* catalogue stage has returned and, when the crawl was started, after it has
\* ended with nothing downloading, queued or being parsed; the write ends
\* the run
C8_SingleWriteAfterJoin ==
    [][/\ writes' <= 1
       /\ output' # output => writes' = writes + 1
       /\ writes' # writes =>
            /\ writes' = writes + 1
            /\ pc \in {"sitemap", "merge"} /\ fpc = "idle"
            /\ (api.exists /\ api.n > 0) => url > api.n
            /\ inflight = {} /\ Len(ready) = 0 /\ Len(running) = 0
            /\ pc' = "done"
       /\ pc = "done" => (writes' = writes /\ output' = output)]_vars

\* the run wrote once, after a crawl that a page limit closed while another
\* download was under way, which was waited for
C8_Witness ==
    /\ pc = "done" /\ writes = 1
    /\ closing /\ limits.page = 1 /\ page_count >= 2
    /\ Len(output) >= 1

\* C9: whatever the order in which downloads complete, the kept crawl records
\* carry the consecutive identifiers from the start value on, none twice and
\* none skipped; the counter is always the next free identifier, and a
\* yielded item carries the identifier just below it
C9_AtomicCounter ==
    (pc \in {"crawl", "merge", "done"} /\ Len(filtered) > 0) =>
      /\ \A i \in 1..Len(feed) : feed[i].id = next_id + i - 1
      /\ \A i, j \in 1..Len(feed) : feed[i].id = feed[j].id => i = j
      /\ Len(running) <= 1
      /\ \A i \in 1..Len(running) :
           /\ running[i].id = id_counter - 1
           /\ running[i].id = next_id + Len(feed)
      /\ Len(running) = 0 => id_counter = next_id + Len(feed)

\* downloads completed out of request order; one kept record is in the feed,
\* a second response was parsed and has taken the next identifier, and a
\* third is queued
C9_Witness ==
    /\ pc = "crawl" /\ Len(feed) >= 1 /\ Len(ready) >= 1
    /\ Len(running) = 1
    /\ running[1].id = feed[Len(feed)].id + 1
    /\ feed[1].source_url.ref # filtered[1]

\* C10: a parse yields no record or one; a page whose data_types is empty
\* yields none and leaves the counter unchanged; a yielded record has
\* non-empty data_types and the counter's value as id, and the counter
\* advances by exactly one; the counter changes in no other step of the
\* crawl, and the records never outnumber the responses parsed
C10_ZeroOrOnePerPage ==
    [][/\ (pc = "crawl" /\ Len(ready) > 0 /\ ready' = Tail(ready)) =>
            IF Len(running') = 0
            THEN id_counter' = id_counter /\ feed' = feed
            ELSE /\ Len(running') = 1 /\ Len(running) = 0
                 /\ Len(running'[1].data_types) > 0
                 /\ running'[1].id = id_counter
                 /\ running'[1].source_url.ref = Head(ready).u
                 /\ id_counter' = id_counter + 1
                 /\ feed' = feed
       /\ (pc = "crawl" /\ Len(ready) > 0 /\ ready' = Tail(ready)
             /\ Head(ready).kind # "files") => Len(running') = 0
       /\ (pc = "crawl" /\ ~(Len(ready) > 0 /\ ready' = Tail(ready))) =>
            id_counter' = id_counter
       /\ feed' # feed => (Len(running) = 1 /\ feed' = Append(feed, running[1]))
       /\ Len(feed') + Len(running') + Len(ready') <= page_count']_vars

\* two responses were parsed to the end: one page yielded no record and left
\* the counter alone, the other was kept
C10_Witness ==
    /\ pc = "crawl" /\ Len(running) = 0 /\ Len(ready) = 0
    /\ page_count = 2 /\ Len(feed) = 1
    /\ id_counter = feed[1].id + 1

\* C11: every record the pipeline writes has non-empty data_types, and the
\* conversion tool writes a record with empty data_types only when run with
\* --keep-empty
C11_NoEmptyDataTypes ==
    /\ \A i \in 1..Len(output) : Len(output[i].data_types) > 0
    /\ cli.pc = "done" =>
         ((\E i \in 1..Len(cli.output) : Len(cli.output[i].data_types) = 0)
            => cli.keep_empty)

\* the tool, run without --keep-empty on two packages, dropped the one with
\* empty data_types and wrote the other
C11_Witness ==
    /\ cli.pc = "done" /\ ~cli.keep_empty
    /\ Len(cli.pkgs) = 2 /\ Len(cli.output) = 1
    /\ Len(collect_data_types(cli.pkgs[1].resources)) = 0
    /\ cli.output[1].source_url.ref = cli.pkgs[2].name

\* C12: the catalogue stage, started with identifier s, holds at every
\* moment and returns a counter n = s + (number of kept records), every
\* kept record's id being at least s and less than n, failed source URLs or
\* not
C12_NextUnusedIdentifier ==
    /\ pc = "ckan" =>
         /\ current_id = CkanStartId + Len(out)
         /\ \A i \in 1..Len(out) : CkanStartId <= out[i].id /\ out[i].id < current_id
    /\ pc = "sitemap" =>
         /\ next_id = CkanStartId + Len(ckan_rows)
         /\ \A i \in 1..Len(ckan_rows) :
              CkanStartId <= ckan_rows[i].id /\ ckan_rows[i].id < next_id

\* the stage returned after the first source URL had failed on a package
\* behind one it kept, and the second had contributed a record
C12_Witness ==
    /\ pc = "sitemap" /\ Len(status) = 2
    /\ status[1] = "bad_package" /\ status[2] = "ok"
    /\ Len(RowsFrom(1, ckan_rows)) >= 1 /\ Len(RowsFrom(2, ckan_rows)) >= 1
    /\ next_id = Len(ckan_rows) + 1

\* C16: a valid first response that reports no total count ends the fetch:
\* fetch_all_pages returns that page's results and sends no further request
C16_NoCountFirstPageOnly ==
    [][(pc = "ckan" /\ fpc = "first"
          /\ resp[1].shape \in {"ok", "nosuccess"} /\ resp[1].count = NoCount)
       => /\ fpc' = "transform"
          /\ results' = resp[1].results
          /\ reqs' = reqs /\ Len(reqs) = 1
          /\ status' = status /\ url' = url]_vars

\* the catalogue holds three packages and serves one per page; its first
\* response carried no count, and the one package of that page was returned
\* after a single request
C16_Witness ==
    /\ pc = "ckan" /\ fpc = "transform"
    /\ total = NoCount /\ Len(reqs) = 1
    /\ srvN = 3 /\ srvRows = 1 /\ Len(results) = 1

\* the entries of the log
Logged(e) == \E i \in 1..Len(status) : status[i] = e

\* C19: the output is either not written at all or is the whole merged
\* collection of a finished run; a run whose root index cannot be fetched
\* or parsed ends without a write, whatever the catalogue stage collected
C19_WholeOrNothing ==
    /\ pc = "crashed" => (writes = 0 /\ output = << >>)
    /\ writes = 0 => (output = << >> /\ pc # "done")
    /\ writes # 0 =>
         /\ writes = 1 /\ pc = "done"
         /\ output = ckan_rows \o (IF Logged("feed_unreadable") THEN << >> ELSE feed)

\* the root index could not be fetched after the catalogue stage had kept
\* two records: the run is over and nothing was written
C19_Witness ==
    /\ pc = "crashed" /\ Len(ckan_rows) = 2
    /\ writes = 0 /\ output = << >>

\* a download ends with an error: its URL leaves the downloader and no
\* response is queued
FetchFails ==
    /\ pc = "crawl"
    /\ \E i \in inflight : inflight' = inflight \ {i}
    /\ ready' = ready

\* the callback of a response raises
ExtractFails ==
    /\ pc = "crawl" /\ Len(running) = 0 /\ Len(ready) > 0
    /\ ready' = Tail(ready)
    /\ ParseItem(Head(ready).u, PageOf(Head(ready).kind), id_counter).kind = "raise"

\* the fields of the record parse builds (lines 277-289)
ItemFields ==
    {"id", "title", "description", "owner", "topic", "year", "license",
     "coverage", "sample_preview", "source_url", "data_types"}

\* a record of the crawl that is whole: it has every field, and but for the
\* id and the URL it got when the callback ran it is the item the extractor
\* builds for a page that is kept
WholeItem(r) ==
    /\ DOMAIN r = ItemFields
    /\ Len(r.data_types) > 0
    /\ \E k \in PageKinds :
         /\ ParsedPage[k].kind = "item"
         /\ r = [ParsedPage[k].item EXCEPT !.id = r.id, !.source_url = r.source_url]

\* the records of the output behind the catalogue's
CrawlRecords == SubSeq(output, Len(ckan_rows) + 1, Len(output))

\* a crawl that has reached its limit comes to the merge and the one write,
\* and the limit is the only thing that closes a crawl early
LimitEndsCrawl ==
    /\ (pc = "crawl" /\ closing) ~> (pc = "done" /\ writes = 1)
    /\ [](closing =>
            /\ pc \in {"crawl", "merge", "done"}
            /\ \/ (limits.page > 0 /\ page_count >= limits.page)
               \/ (limits.item > 0 /\ item_count >= limits.item))

\* C17 as stated: a crawl that has reached its item or page limit ends
\* without error, it comes to the merge and the one write, and the output
\* holds every record kept before the stop, each one whole, behind the
\* catalogue's
C17_KeptAlwaysInOutput ==
    /\ LimitEndsCrawl
    /\ []((pc = "done" /\ closing) =>
            /\ output = ckan_rows \o feed
            /\ \A i \in 1..Len(CrawlRecords) : WholeItem(CrawlRecords[i]))

\* C17: a crawl that has reached its item or page limit ends without error:
\* it comes to the merge and the one write; the limit is the only thing that
\* closes a crawl early; when the feed is read back the output holds every
\* record kept before the stop, in the order kept, behind the catalogue's,
\* and when it cannot be read back the output holds the catalogue's records
\* alone; every crawl record of the output is whole
C17_LimitEndsCrawlCleanly ==
    /\ LimitEndsCrawl
    /\ []((pc = "done" /\ closing) =>
            /\ output = IF Logged("feed_unreadable") THEN ckan_rows
                        ELSE ckan_rows \o feed
            /\ \A i \in 1..Len(feed) : WholeItem(feed[i])
            /\ \A i \in 1..Len(CrawlRecords) : WholeItem(CrawlRecords[i]))

\* a page limit of one closed the crawl while a second download was under
\* way; both pages were kept, and both are in the output, whole, behind a
\* catalogue record
C17_Witness ==
    /\ pc = "done" /\ closing /\ limits.page = 1 /\ limits.item = 0
    /\ Len(feed) = 2 /\ Len(ckan_rows) >= 1
    /\ ~Logged("feed_unreadable")
    /\ output = ckan_rows \o feed
    /\ output[Len(output)].id = output[Len(output) - 1].id + 1
    /\ output[Len(output)].title = << "D", "a", "t", "a" >>
    /\ output[Len(output)].owner = << "A", "B", "S" >>
    /\ output[Len(output)].year = << "2", "0", "2", "1" >>
    /\ output[Len(output)].data_types = << "h", "t", "m", "l", ",", " ", "x", "l", "s", "x" >>

\* C18: a page that cannot be fetched, or whose extraction raises, yields no
\* record and leaves the counter alone, and the crawl goes on: the other
\* downloads and queued responses stay, nothing is closed, and the crawl
\* ends only when every URL has been requested or a limit was reached
C18_PageFailureIsolated ==
    [][/\ (FetchFails \/ ExtractFails) =>
            /\ id_counter' = id_counter /\ feed' = feed /\ running' = running
            /\ item_count' = item_count
            /\ pc' = "crawl" /\ closing' = closing
            /\ nextReq' = nextReq /\ filtered' = filtered
            /\ Cardinality(inflight') >= Cardinality(inflight) - 1
            /\ Len(ready') >= Len(ready) - 1
       /\ (pc = "crawl" /\ pc' # "crawl") =>
            /\ pc' = "merge"
            /\ closing \/ nextReq > Len(filtered)
       /\ (pc = "crawl" /\ closing' /\ ~closing) =>
            \/ (limits.page > 0 /\ page_count' >= limits.page)
            \/ (limits.item > 0 /\ item_count' >= limits.item)]_vars

\* the download of one URL had failed and the extraction of another had
\* raised; the crawl went on to a third, which was kept with the first
\* identifier of the crawl
C18_Witness ==
    /\ pc \in {"crawl", "merge"} /\ ~closing
    /\ Len(filtered) = 3 /\ nextReq = 4
    /\ page_count = 2 /\ Len(feed) = 1 /\ feed[1].id = next_id
    /\ feed[1].source_url.ref = filtered[3]
    /\ inflight = {} /\ Len(ready) = 0 /\ Len(running) = 0

\* the leaf entries of the named documents, one after the other; a document
\* that cannot be read, or that lists only further indexes, has none
RECURSIVE LeavesOf(_)
LeavesOf(names) ==
    IF Len(names) = 0 THEN << >>
    ELSE Web[Head(names)].urls \o LeavesOf(Tail(names))

\* C13: the collected URLs are the root's own leaf entries when it has any;
\* otherwise they are the leaf entries of the children the root refers to,
\* in the root's order, and a child that is an index of indexes adds none,
\* whatever its own children hold
C13_OneLevelFlattening ==
    /\ idx.pc = "exit1" => ~idx.root.ok
    /\ idx.pc \in {"collected", "done"} =>
         /\ idx.root.ok
         /\ Len(idx.root.urls) > 0 => idx.urls = idx.root.urls
         /\ Len(idx.root.urls) = 0 => idx.urls = LeavesOf(idx.root.sitemaps)
         /\ (/\ Len(idx.root.urls) = 0
             /\ \A i \in 1..Len(idx.root.sitemaps) : idx.root.sitemaps[i] = "cnested")
              => idx.urls = << >>

C13_Witness ==
    /\ idx.pc = "done"
    /\ Len(idx.root.urls) = 0 /\ idx.root.sitemaps = << "cnested", "c2" >>
    /\ Len(LeavesOf(Web["cnested"].sitemaps)) > 0
    /\ idx.urls = << UrlReport, UrlCsv >>

\* "k in path.lower()" for the lower-cased keyword k
PathHas(u, k) ==
    \E i \in 1..(Len(u.path) - Len(k) + 1) :
        Lower(SubSeq(u.path, i, i + Len(k) - 1)) = Lower(k)

\* the positions of the URLs of a list whose path holds one of the keywords
HitsIn(urls, keywords) ==
    {i \in 1..Len(urls) : \E n \in 1..Len(keywords) : PathHas(urls[i], keywords[n])}

\* C14: the filter's result is the input with exactly the URLs left out
\* whose path holds none of the keywords (case ignored; host and query not
\* looked at), the others in the input's order; /open-data/api/records is
\* kept for the keyword api, /about-us is left out under the built-in ones
C14_KeywordFilter ==
    idx.pc = "done" =>
        LET hits == HitsIn(idx.deduped, idx.keywords)
        IN  /\ Len(idx.filtered) = Cardinality(hits)
            /\ \A i \in hits :
                 idx.filtered[Cardinality({j \in hits : j <= i})] = idx.deduped[i]
            /\ (/\ UrlApi \in Range(idx.deduped)
                /\ << "a", "p", "i" >> \in Range(idx.keywords))
                 => UrlApi \in Range(idx.filtered)
            /\ idx.keywords = DEFAULT_KEYWORDS => UrlAbout \notin Range(idx.filtered)

C14_Witness ==
    /\ idx.pc = "done"
    /\ idx.keywords = DEFAULT_KEYWORDS
    /\ idx.deduped = << UrlAbout, UrlCsv >>
    /\ idx.filtered = << UrlCsv >>

\* where x first stands in s
FirstAt(s, x) == CHOOSE i \in 1..Len(s) : s[i] = x /\ \A j \in 1..(i - 1) : s[j] # x

\* C15: the collector's list, once the repeated URLs are removed, holds no
\* URL twice, holds every URL of the index documents, and lists them in the
\* order in which they first occur there; so does what the tool writes
C15_NoRepeatFirstSeenOrder ==
    idx.pc \in {"collected", "done"} =>
        /\ \A i, j \in 1..Len(idx.deduped) : i # j => idx.deduped[i] # idx.deduped[j]
        /\ Range(idx.deduped) = Range(idx.urls)
        /\ \A i, j \in 1..Len(idx.deduped) :
             i < j => FirstAt(idx.urls, idx.deduped[i]) < FirstAt(idx.urls, idx.deduped[j])
        /\ \A i, j \in 1..Len(idx.out) : i # j => idx.out[i] # idx.out[j]

C15_Witness ==
    /\ idx.pc = "done"
    /\ idx.urls = << UrlApi, UrlReport, UrlReport, UrlCsv >>
    /\ idx.deduped = << UrlApi, UrlReport, UrlCsv >>

\* the years of the timestamps of a package's resources
StampYears(resources) ==
    {IntOf(YearSearch(resources[i][k])) :
        << i, k >> \in {ik \in (1..Len(resources))
                                 \X {"last_modified", "created", "metadata_modified"} :
                           YearSearch(resources[ik[1]][ik[2]]) # << >>}}

\* C20: the year is the one in the title when the title holds one; else the
\* one in temporal_coverage_from when that holds one; else the greatest
\* year of the resources' timestamps; else the empty string; the title
\* "2023 Annual Report" with a resource last modified in 2024 gives "2023"
C20_YearPrecedence ==
    yr.pc = "done" =>
        LET t  == YearSearch(clean(yr.title))
            f  == YearSearch(yr.temporal_from)
            ys == StampYears(yr.resources)
        IN  /\ t # << >> => yr.year = t
            /\ (t = << >> /\ f # << >>) => yr.year = f
            /\ (t = << >> /\ f = << >> /\ ys # {}) =>
                 /\ Len(yr.year) = 4
                 /\ IntOf(yr.year) \in ys
                 /\ \A y \in ys : y <= IntOf(yr.year)
            /\ (t = << >> /\ f = << >> /\ ys = {}) => yr.year = << >>
            /\ (/\ yr.title = Title2023
                /\ \E i \in 1..Len(yr.resources) :
                      yr.resources[i].last_modified = Stamp2024)
                 => yr.year = << "2", "0", "2", "3" >>

C20_Witness ==
    /\ yr.pc = "done"
    /\ yr.title = Title2023
    /\ YearSearch(yr.temporal_from) = << "2", "0", "2", "2" >>
    /\ Len(yr.resources) = 2 /\ yr.resources[2].last_modified = Stamp2024
    /\ 2024 \in StampYears(yr.resources)
    /\ yr.year = << "2", "0", "2", "3" >>

\* the tool's run has ended
CliEnded == cli.pc \in {"done", "exit2", "crashed"}

\* a readable JSON input that is neither a search response (an object with
\* result.results) nor a list
Unrecognized(given) ==
    /\ given.kind \in {"http", "dict"}
    /\ given.shape \in {"noresult", "nullresult", "noresults", "notdict"}

\* C21: a run whose input is neither a search response nor a list, however
\* it was given, ends with exit status 2, and a run that ends without
\* writing ends with a status other than 0
C21_UnrecognizedExitsTwo ==
    CliEnded =>
        /\ Unrecognized(cli.input) => ExitCode(cli.pc) = 2
        /\ cli.writes = 0 => ExitCode(cli.pc) # 0

\* rows sorted by source URL, with increasing identifiers
InSourceOrder(rs) ==
    \A i, j \in 1..Len(rs) :
        i < j => SourceOf(rs[i]) <= SourceOf(rs[j]) /\ rs[i].id < rs[j].id

\* C22: the catalogue stage takes the source URLs one at a time in input
\* order: the loop never goes back or skips, a step only appends rows of
\* the URL it is at, so the rows of an earlier URL stand before those of a
\* later one and the identifiers increase in that order, also in what the
\* stage returns
C22_SourcesInInputOrder ==
    /\ [][pc = "ckan" =>
            /\ url' \in {url, url + 1}
            /\ (fpc # "idle" /\ url' = url + 1) => fpc' = "idle"
            /\ Len(out') >= Len(out) /\ SubSeq(out', 1, Len(out)) = out
            /\ \A i \in (Len(out) + 1)..Len(out') : SourceOf(out'[i]) = url
            /\ InSourceOrder(out')
            /\ pc' = "sitemap" => ckan_rows' = out]_vars
    /\ [](pc # "start" => InSourceOrder(ckan_rows))

C22_Witness ==
    /\ pc = "sitemap" /\ Len(ckan_rows) = 3
    /\ SourceOf(ckan_rows[1]) = 1 /\ SourceOf(ckan_rows[2]) = 1
    /\ SourceOf(ckan_rows[3]) = 2
    /\ ckan_rows[3].id = 3

\* the pieces of a text between its ", " separators
RECURSIVE PiecesOf(_, _, _)
PiecesOf(s, cur, acc) ==
    IF Len(s) = 0 THEN Append(acc, cur)
    ELSE IF Len(s) >= 2 /\ s[1] = "," /\ s[2] = " "
         THEN PiecesOf(SubSeq(s, 3, Len(s)), << >>, Append(acc, cur))
         ELSE PiecesOf(Tail(s), Append(cur, s[1]), acc)

\* the tokens of a data_types text; the empty text has none
TokensOf(text) == IF Len(text) = 0 THEN << >> ELSE PiecesOf(text, << >>, << >>)

TokHtm == << "h", "t", "m" >>
TokHtml == << "h", "t", "m", "l" >>

\* the tokens the input of a normalizer call offers, before normalization
RawTypes ==
    IF dt.side = "catalogue"
    THEN UNION {ResourceTypes(dt.resources[i]) : i \in 1..Len(dt.resources)}
    ELSE UNION {AnchorExts(dt.anchors[i]) : i \in 1..Len(dt.anchors)}

\* C23: on either side the data_types text is the ", "-joined list of the
\* lower-cased tokens with htm replaced by html: every token is lower-case
\* and not empty, the tokens are strictly ascending (so none is repeated),
\* htm is not among them, and html stands once for htm and html alike
C23_SortedSetOfTokens ==
    dt.pc = "done" =>
        LET toks == TokensOf(dt.data_types)
        IN  /\ \A i \in 1..Len(toks) :
                 Len(toks[i]) > 0 /\ Lower(toks[i]) = toks[i] /\ toks[i] # TokHtm
            /\ \A i, j \in 1..Len(toks) : i < j => StrLess(toks[i], toks[j])
            /\ Range(toks) = {IF Lower(t) = TokHtm THEN TokHtml ELSE Lower(t) :
                                  t \in RawTypes}

C23_Witness ==
    /\ dt.pc = "done" /\ dt.side = "catalogue"
    /\ Len(dt.resources) = 2
    /\ dt.resources[1].format = << "H", "T", "M" >>
    /\ dt.resources[2].format = TokHtml
    /\ dt.resources[1].url = << "/", "r", ".", "c", "s", "v" >>
    /\ dt.data_types = << "c", "s", "v", ",", " ", "h", "t", "m", "l" >>

\* the selectors of the fixed list that match some region of the page
HitSelectors == {k \in 1..NumSelectors : \E i \in 1..Len(pg.regions) : Matches(k, pg.regions[i])}

\* the container _sel chose and what the extractor makes of it alone: the
\* item of a page that holds the container's regions and nothing else; the
\* document's title element belongs to the container only when the
\* container is the whole document
Scoped == RegionsAt(pg.regions, pg.container, 1)
FromContainerOnly ==
    ParseItem(<< >>,
              [text |-> TRUE,
               doc_title |-> IF HitSelectors = {} THEN pg.doc_title ELSE << >>,
               regions |-> Scoped],
              1).item

\* the container is what the first selector of the fixed list that matches
\* anything matches, and the whole page when none does
ContainerChosen ==
    /\ HitSelectors = {} => pg.container = 1..Len(pg.regions)
    /\ \A k \in HitSelectors :
         (\A l \in HitSelectors : k <= l) =>
             pg.container = {i \in 1..Len(pg.regions) : Matches(k, pg.regions[i])}

\* the title is the first h1 of the container, the document's title only
\* when the container has no h1
TitleRule ==
    LET titled == {i \in pg.container : Len(pg.regions[i].h1) > 0}
    IN  IF titled = {} THEN pg.result.item.title = strip(pg.doc_title)
        ELSE \E i \in titled :
               /\ \A j \in titled : i <= j
               /\ pg.result.item.title = strip(pg.regions[i].h1)

\* the fields of the item other than the title, the year, the id and the URL
ContainerFields ==
    {"description", "owner", "topic", "license", "coverage", "sample_preview",
     "data_types"}

\* C24 as stated: the container is the match of the first selector that
\* matches anything, the whole page when none does, and every field but the
\* title (with its document-title fallback) is what the container alone
\* gives, the year included
C24_AllFieldsFromContainer ==
    pg.pc = "done" =>
        /\ ContainerChosen
        /\ TitleRule
        /\ LET alone == FromContainerOnly
           IN  \A f \in ContainerFields \cup {"year"} : pg.result.item[f] = alone[f]

\* C24: the container is the match of the first selector of the fixed list
\* that matches anything, and the whole page when none does; the title is
\* the first h1 of the container, the document's title only when the
\* container has no h1; the year is the year in that title when it holds
\* one (so in the document's title when that is the fallback), and what
\* the container alone gives otherwise; every other field is what the
\* container alone gives, whatever the other regions hold, and the data
\* types are those of the container's anchors and of no other region
C24_ScopedContainer ==
    pg.pc = "done" =>
        /\ ContainerChosen
        /\ TitleRule
        /\ LET alone == FromContainerOnly
               year == YearSearch(pg.result.item.title)
           IN  /\ \A f \in ContainerFields : pg.result.item[f] = alone[f]
               /\ pg.result.item.year = IF Len(year) > 0 THEN year ELSE alone.year
        /\ Range(TokensOf(pg.result.item.data_types)) =
               {NormExt(Lower(e)) :
                   e \in UNION {UNION {AnchorExts(pg.regions[i].anchors[n]) :
                                          n \in 1..Len(pg.regions[i].anchors)} :
                                   i \in pg.container}}

\* a page whose first region matches no selector and holds an h1, an owner
\* and a year, and whose second region, an article with no h1, is the
\* container: the title and the year come from the document's title, the
\* rest from the article
C24_Witness ==
    /\ pg.pc = "done" /\ Len(pg.regions) = 2
    /\ pg.regions[1].tag = "div" /\ pg.regions[1].id = "" /\ pg.regions[1].role = ""
    /\ pg.regions[1].classes = {} /\ pg.regions[1].h1 = H1One
    /\ pg.regions[2].tag = "article" /\ pg.regions[2].h1 = << >>
    /\ pg.doc_title = Site1999
    /\ pg.container = {2}
    /\ pg.result.item.title = << "S", "i", "t", "e", " ", "1", "9", "9", "9" >>
    /\ pg.result.item.year = << "1", "9", "9", "9" >>
    /\ FromContainerOnly.year = << "2", "0", "2", "1" >>
    /\ pg.result.item.owner = << "C", "S", "I", "R", "O" >>
    /\ pg.result.item.coverage = << "Q", "l", "d" >>
    /\ pg.result.item.description = << >>
    /\ pg.result.item.sample_preview = << "T", "e", "x", "t" >>
    /\ pg.result.item.data_types = << "x", "l", "s", "x" >>

\* the follow-up requests fetch_all_pages has sent for the current URL
FollowUps == Len(reqs) - 1

\* the results the first page of the current URL carried
FirstPageLen == PageLen(reqs[1], srvRows, srvN)

\* max(0, T - n)
FollowUpBound == IF total - FirstPageLen > 0 THEN total - FirstPageLen ELSE 0

\* C25: fetch_all_pages comes to an end: handling a follow-up page either
\* leaves the loop (empty page, or a failure) or strictly increases the
\* count of results held; a follow-up request is sent only while that count
\* is below the total, so at most max(0, T - n) of them are sent
C25_BoundedFollowUps ==
    /\ [][(pc = "ckan" /\ fpc = "paged") =>
             \/ fpc' \in {"transform", "idle"} /\ reqs' \in {reqs, << >>}
             \/ fpc' = "paging" /\ got' > got /\ got' < total /\ reqs' = reqs]_vars
    /\ [][(pc = "ckan" /\ fpc = "paging") =>
             /\ got < total /\ got >= FirstPageLen + FollowUps
             /\ fpc' = "paged" /\ Len(reqs') = Len(reqs) + 1 /\ got' = got]_vars
    /\ []((pc = "ckan" /\ Len(reqs) >= 1 /\ fpc \in {"paging", "paged", "transform"})
            => FollowUps <= FollowUpBound)

C25_Witness ==
    /\ pc = "ckan" /\ fpc = "transform"
    /\ total = 3 /\ FirstPageLen = 1 /\ FollowUps = 2 /\ got = 3

\* what is logged when a page could not be fetched or validated
FetchFailures == {"transport", "unreadable", "not_a_response", "success_false",
                  "type_error"}

\* the response in hand is a page that could not be fetched or validated
PageFailed ==
    /\ pc = "ckan" /\ fpc \in {"first", "paged"}
    /\ resp[1].shape \in {"neterr", "notdict", "noresult", "nullresult", "noresults",
                         "failure"}

\* C26: when a page of a source URL cannot be fetched or validated, also a
\* follow-up page after pages that could, the pages fetched for that URL
\* are dropped, the rows and the counter stay as they were before the URL,
\* and the loop goes to the next URL; no row of a URL logged as failed in
\* this way is ever among the rows
C26_FailedUrlGivesNothing ==
    /\ [][PageFailed =>
             /\ out' = out /\ current_id' = current_id
             /\ results' = << >> /\ fpc' = "idle"
             /\ url' = url + 1
             /\ Len(status') = url /\ status'[url] \in FetchFailures
             /\ RowsFrom(url, out) = << >>]_vars
    /\ [](\A u \in 1..Len(status) :
            status[u] \in FetchFailures =>
                RowsFrom(u, out) = << >> /\ RowsFrom(u, ckan_rows) = << >>)
    /\ []((pc = "ckan" /\ fpc \in {"first", "paging", "paged"}) =>
            /\ RowsFrom(url, out) = << >>
            /\ current_id = CkanStartId + Len(out))

C26_Witness ==
    /\ pc = "ckan" /\ url = 2 /\ fpc = "paged"
    /\ Len(results) >= 1 /\ Len(reqs) = 2
    /\ resp[1].shape = "neterr"
    /\ Len(out) >= 1 /\ current_id = Len(out) + 1

\* the values a query gives for a parameter, in the order it gives them
ValuesOf(query, k) ==
    LET hits == SelectSeq(query, LAMBDA p : p.k = k)
    IN  [i \in 1..Len(hits) |-> hits[i].v]

ParamNames == {p.k : p \in QueryParams}

\* the page size and the offset a source URL asks for
RowsOf(query) ==
    IF ValuesOf(query, "rows") = << >> THEN 100 ELSE IntOf(ValuesOf(query, "rows")[1])
StartOf(query) ==
    IF ValuesOf(query, "start") = << >> THEN 0 ELSE IntOf(ValuesOf(query, "start")[1])

\* C27: the n-th follow-up request of fetch_all_pages asks for offset
\* start0 + n*rows, rows and start0 being the page size and offset of the
\* original URL (100 and 0 when absent), and carries every other parameter
\* of the original URL unchanged; the offset advances by the page size asked
\* for, whatever number of results the pages held
C27_FollowUpOffsets ==
    /\ (pc = "ckan" /\ Len(reqs) >= 1) =>
          \A n \in 1..FollowUps : reqs[n + 1] = reqs[1] + n * rows
    /\ \A n \in 1..(IF uq.pc = "loop" THEN Len(uq.sent) ELSE 0) :
          /\ ValuesOf(uq.sent[n], "start")
                = << StrOf(StartOf(uq.query) + n * RowsOf(uq.query)) >>
          /\ \A k \in ParamNames \ {"start"} :
                ValuesOf(uq.sent[n], k) = ValuesOf(uq.query, k)

C27_Witness ==
    /\ uq.pc = "loop"
    /\ uq.query = << Param("q", << "x" >>), Param("start", << "3" >>),
                     Param("fq", << >>) >>
    /\ Len(uq.sent) = 2
    /\ uq.sent[2] = << Param("q", << "x" >>), Param("start", << "2", "0", "3" >>),
                       Param("fq", << >>) >>

\* the child indexes that can be fetched and parsed, in the root's order
Readable(names) == SelectSeq(names, LAMBDA c : Web[c].ok)

\* the leaf entries of the listed children, child after child
RECURSIVE LeafUrls(_)
LeafUrls(names) ==
    IF Len(names) = 0 THEN << >>
    ELSE LET d == Web[Head(names)]
         IN  [i \in 1..Len(d.urls) |-> d.urls[i]] \o LeafUrls(Tail(names))

\* C28: under a root that only refers to child indexes, a child that cannot
\* be fetched or parsed adds no URL and takes none away: the collector
\* returns the leaf entries of the readable children in the root's order,
\* and it fails only when the root itself cannot be read
C28_UnreadableChildSkipped ==
    /\ idx.pc = "exit1" => ~idx.root.ok
    /\ (idx.pc \in {"collected", "done"} /\ Len(idx.root.urls) = 0) =>
          /\ idx.urls = LeafUrls(Readable(idx.root.sitemaps))
          /\ (\A i \in 1..Len(idx.root.sitemaps) : ~Web[idx.root.sitemaps[i]].ok)
                => idx.urls = << >>

C28_Witness ==
    /\ idx.pc = "collected"
    /\ idx.root.ok /\ Len(idx.root.urls) = 0
    /\ idx.root.sitemaps = << "cbad", "c2" >>
    /\ ~Web["cbad"].ok
    /\ idx.urls = << UrlReport, UrlCsv >>

\* the crawl stage has done nothing
CrawlUntouched ==
    /\ filtered = << >> /\ nextReq = 1 /\ inflight = {}
    /\ Len(ready) = 0 /\ Len(running) = 0 /\ feed = << >>
    /\ item_count = 0 /\ page_count = 0 /\ ~closing

\* C29: the crawl starts only with at least one filtered URL; when the
\* filter leaves none, the step after the catalogue stage writes the
\* catalogue records as they are, once, and ends the run with the crawl
\* stage never entered
C29_NoUrlWritesCatalogueOnly ==
    /\ [][pc = "sitemap" =>
             \/ pc' = "crashed" /\ writes' = writes
             \/ pc' = "crawl" /\ Len(filtered') >= 1 /\ writes' = writes
             \/ /\ pc' = "done" /\ filtered' = << >>
                /\ writes = 0 /\ writes' = 1
                /\ output' = ckan_rows /\ ckan_rows' = ckan_rows
                /\ UNCHANGED crawlVars]_vars
    /\ [](pc \in {"crawl", "merge"} => Len(filtered) >= 1)
    /\ []((pc = "done" /\ filtered = << >>) =>
            /\ CrawlUntouched
            /\ writes = 1 /\ output = ckan_rows
            /\ \A i \in 1..Len(output) : output[i].id = i /\ ~IsCrawlRow(output[i]))

C29_Witness ==
    /\ pc = "done" /\ filtered = << >> /\ CrawlUntouched
    /\ writes = 1 /\ Len(ckan_rows) = 2 /\ output = ckan_rows

\* the feed of a finished crawl gave no rows: it could not be read, or it
\* is empty
FeedGaveNothing == Logged("feed_unreadable") \/ feed = << >>

\* C30: after the crawl has ended, a feed that cannot be read back or holds
\* nothing does not end the run without a write: the merge step writes the
\* output, which is the catalogue records in their order and nothing else
C30_FeedLostWritesCatalogue ==
    /\ [][pc = "merge" => (pc' = "done" /\ writes' = writes + 1)]_vars
    /\ [][(pc = "merge" /\ (feed = << >> \/ Len(status') > Len(status))) =>
             (output' = ckan_rows /\ ckan_rows' = ckan_rows)]_vars
    /\ []((pc = "done" /\ Len(filtered) >= 1 /\ FeedGaveNothing) =>
            /\ writes = 1 /\ output = ckan_rows
            /\ StrictlyIncreasing(output)
            /\ \A i \in 1..Len(output) : ~IsCrawlRow(output[i]))

C30_Witness ==
    /\ pc = "done" /\ Len(filtered) >= 1
    /\ Logged("feed_unreadable") /\ Len(feed) >= 1
    /\ Len(ckan_rows) >= 1 /\ writes = 1 /\ output = ckan_rows

====
